---------------------------- MODULE Spec2Model ----------------------------
(***************************************************************************)
(* Model of the real-time change-propagation layer of the monitor:         *)
(*   - DatabaseListenerService   (Channel Listener)                        *)
(*   - SSEHandler                (Stream Session)                          *)
(*   - SSEEndpointFactory        (resource filters)                        *)
(*   - SSEConnectionService      (Client Connection Manager)               *)
(*   - useSessionsSSE & friends  (Typed Client Hooks)                      *)
(*                                                                         *)
(* Encoding of JavaScript values:                                          *)
(*   null       is the string "<null>"      (Null)                         *)
(*   undefined  is the string "<undefined>" (Undefined)                    *)
(*   the booleans true / false of a row field are "true" / "false"         *)
(*   a row is a record with every column present; a column the producer    *)
(*   did not write holds Undefined.                                        *)
(***************************************************************************)
EXTENDS Integers, Sequences, FiniteSets, TLC

VARIABLES
    \* ---- resource filters (SSEEndpointFactory) ----
    fEndpoint,      \* which endpoint's filter is evaluated
    fSessionId,     \* searchParams.get('session_id')
    fResolved,      \* searchParams.get('resolved')
    fEvent,         \* the ChangeEvent handed to the filter
    fResult,        \* "none" before the call, then "true" / "false"
    \* ---- typed client hooks ----
    hKind,          \* which typed hook is mounted
    hColl,          \* the hook's collection (a sequence of rows)
    hPrev,          \* the collection before the last applied message
    hLast,          \* the last applied message: [action, id, present]
    hFetch,         \* the loading flag and the fetches of the hook's collection
    \* ---- client connection manager (SSEConnectionService) ----
    connectionState,    \* idle | connecting | connected | error | disconnected
    eventSource,        \* 0 (null) or the id of the manager's current transport
    isDestroyed,
    reconnectTimeout,   \* the reconnect timers outstanding
    connectionTimeout,  \* TRUE while the connection timeout is pending
    esState,            \* transport id -> none | connecting | open | closed
    nOpened,            \* number of EventSource objects created so far
    cLastOp,            \* the last operation of the manager and its outcome
    cDestroyCalled,     \* history: destroy() has been called
    \* ---- channel listener (DatabaseListenerService) ----
    client,             \* 0 (null), 1 (the current pg Client object) or LostClient
    isConnected,
    connectionPromise,  \* "null" | "pending": an attempt sequence is in flight
    connRetries,        \* attempts left in _connectWithRetry (0 when not running)
    connPhase,          \* idle | attempting | delaying
    connDelay,          \* the backoff delay being waited, in connectionTimeoutMillis
    connSeqs,           \* history: _connectWithRetry runs in flight
    connAttempts,       \* history: attempts made by the run in flight
    listeners,          \* Map channel -> Set of callbacks, in insertion order
    handlers,           \* channel -> 'notification' handlers attached to the client
    queries,            \* the client's queue of commands in flight
    pgListen,           \* channels the server notifies this connection about
    calls,              \* caller -> its listen()/unlisten() call in flight
    listenCmds,         \* history: LISTEN commands issued, per channel
    unlistenCmds,       \* history: UNLISTEN commands issued, per channel
    nCalls,             \* history: listen()/unlisten() calls made
    overlapped,         \* history: two calls have been in flight together
    queryFailed,        \* history: a command has failed
    cbCalls,            \* callback -> its invocations during the last notification
    lastNote,           \* msg.payload of the last notification
    \* ---- stream sessions (SSEHandler), one entry per session ----
    sPc,                \* none | listening | retry_wait | streaming | cleaning | closed
    sFilter,            \* the session_id query parameter of the request
    sRetries,           \* retries left in setupDatabaseListener (0 when not running)
    isClosed,
    heartbeatInterval,  \* TRUE while the interval timer is armed
    debounceTimeout,    \* deadline of the armed debounce timer, 0 when none is armed
    pendingData,
    lastSentDataHash,
    lastMessageTime,
    aborted,            \* request.signal has fired 'abort'
    cancelled,          \* the runtime has cancelled the response stream
    ctrlClosed,         \* controller.close() has been called
    lastMsg,            \* type of the last message enqueued on the stream
    sendLog,            \* history of the messages enqueued on the stream
    lastData,           \* the event carried by the last data message enqueued
    hist,               \* history of the events accepted and the messages sent
    now,                \* Date.now()
    nEvents,            \* history: notifications dispatched
    \* ---- the useSSE hook of one mounted component ----
    useSSE,             \* its options, React state, pending render and timers
    \* ---- history ----
    dispatched,         \* the notifications delivered, callback by callback
    \* ---- the fingerprint comparison on its own ----
    dedup               \* the event sent last, the event pending, the verdict

filterVars == <<fEndpoint, fSessionId, fResolved, fEvent, fResult>>
hookVars   == <<hKind, hColl, hPrev, hLast, hFetch>>
clientVars == <<connectionState, eventSource, isDestroyed, reconnectTimeout,
                connectionTimeout, esState, nOpened, cLastOp, cDestroyCalled>>
connVars   == <<client, isConnected, connectionPromise, connRetries, connPhase,
                connDelay, connSeqs, connAttempts>>
listenerVars == <<connVars, listeners, handlers, queries, pgListen, calls,
                  listenCmds, unlistenCmds, nCalls, overlapped, queryFailed, cbCalls, lastNote>>
lifeVars   == <<sPc, sFilter, sRetries, heartbeatInterval, aborted, cancelled,
                ctrlClosed>>
paceVars   == <<debounceTimeout, pendingData, lastSentDataHash, lastMessageTime>>
outVars    == <<isClosed, lastMsg, sendLog, lastData>>
sessionVars == <<lifeVars, paceVars, outVars, hist, now, nEvents>>
vars       == <<filterVars, hookVars, clientVars, listenerVars, sessionVars, useSSE,
               dispatched, dedup>>
exceptFilter == <<hookVars, clientVars, listenerVars, sessionVars, useSSE, dispatched, dedup>>
exceptHooks  == <<filterVars, clientVars, listenerVars, sessionVars, useSSE, dispatched, dedup>>
exceptClient == <<filterVars, hookVars, listenerVars, sessionVars, useSSE, dispatched, dedup>>
exceptListener == <<filterVars, hookVars, clientVars, sessionVars, useSSE, dispatched, dedup>>
exceptSession  == <<filterVars, hookVars, clientVars, useSSE, dispatched, dedup>>
exceptUse  == <<filterVars, hookVars, listenerVars, sessionVars, dispatched, dedup>>
exceptDispatch == <<filterVars, hookVars, clientVars, sessionVars, useSSE, dedup>>
exceptDedup == <<filterVars, hookVars, clientVars, listenerVars, sessionVars, useSSE,
                 dispatched>>

Null      == "<null>"
Undefined == "<undefined>"

-----------------------------------------------------------------------------
(* Data model                                                              *)

Tables  == {"sessions", "people_movements", "alert_logs", "realtime_metrics"}
Actions == {"INSERT", "UPDATE", "DELETE", "TEST"}

\* Row ids / session ids seen by the filters.
RowIds == {"A", "B"}

JsBool(b) == IF b THEN "true" ELSE "false"

\* Rows as the producer writes them (row_to_json(NEW)); a DELETE carries data = null.
FilterRows ==
    [id : RowIds, session_id : RowIds \cup {Undefined},
     is_resolved : {"true", "false", Undefined}]

\* data = null (row_to_json(NEW) of a DELETE), kept record-shaped
NullRow == [id |-> Null, session_id |-> Null, is_resolved |-> Null]

FilterEvents ==
    [table : Tables, action : Actions, data : FilterRows]
    \cup [table : Tables, action : {"DELETE"}, data : {NullRow}]

\* data.data?.field
Field(ev, f) == IF ev.data = NullRow THEN Undefined ELSE ev.data[f]

\* !sessionId : null and the empty string are both falsy
Falsy(s) == s = Null \/ s = ""

isSessionSSEData(ev)  == ev.table = "sessions"
isMovementSSEData(ev) == ev.table = "people_movements"
isAlertSSEData(ev)    == ev.table = "alert_logs"
isMetricsSSEData(ev)  == ev.table = "realtime_metrics"

-----------------------------------------------------------------------------
(* SSEEndpointFactory: the four filter predicates                          *)

SessionsFilter(ev, sessionId) ==
    Falsy(sessionId) \/ (isSessionSSEData(ev) /\ Field(ev, "id") = sessionId)

MovementsFilterById(ev, sessionId) ==
    Falsy(sessionId) \/ (isMovementSSEData(ev) /\ Field(ev, "id") = sessionId)
MovementsFilter(ev, sessionId) ==
    Falsy(sessionId) \/ (isMovementSSEData(ev) /\ Field(ev, "session_id") = sessionId)

AlertsFilterEmptyResolvedIsAbsent(ev, sessionId, resolved) ==
    /\ (Falsy(sessionId)
        \/ (isAlertSSEData(ev) /\ Field(ev, "session_id") = sessionId))
    /\ (Falsy(resolved)
        \/ (isAlertSSEData(ev) /\ Field(ev, "is_resolved") = JsBool(resolved = "true")))
AlertsFilter(ev, sessionId, resolved) ==
    IF ~Falsy(sessionId) /\ (~isAlertSSEData(ev) \/ Field(ev, "session_id") # sessionId)
    THEN FALSE
    ELSE IF resolved # Null
            /\ (~isAlertSSEData(ev)
                \/ Field(ev, "is_resolved") # JsBool(resolved = "true"))
         THEN FALSE
         ELSE TRUE

MetricsFilter(ev, sessionId) ==
    Falsy(sessionId) \/ (isMetricsSSEData(ev) /\ Field(ev, "session_id") = sessionId)

Endpoints == {"Sessions", "Movements", "Alerts", "Metrics"}

\* createEndpoint: filterCallback(data, searchParams) of the endpoint
FilterCallback(ep, ev, sessionId, resolved) ==
    CASE ep = "Sessions"  -> SessionsFilter(ev, sessionId)
      [] ep = "Movements" -> MovementsFilter(ev, sessionId)
      [] ep = "Alerts"    -> AlertsFilter(ev, sessionId, resolved)
      [] ep = "Metrics"   -> MetricsFilter(ev, sessionId)

\* Values of the query parameters: absent (null), empty, or a string.
SessionIdParams == {Null, "", "A", "B"}
ResolvedParams  == {Null, "", "true", "false"}

FilterInit ==
    /\ fEndpoint \in Endpoints
    /\ fSessionId \in SessionIdParams
    /\ fResolved \in ResolvedParams
    /\ fEvent \in FilterEvents
    /\ fResult = "none"

FilterIdle ==
    /\ fEndpoint = "Sessions"
    /\ fSessionId = Null
    /\ fResolved = Null
    /\ fEvent = [table |-> "sessions", action |-> "DELETE", data |-> NullRow]
    /\ fResult = "none"

\* handleDataChange's first statement: evaluate the session's filter on the event
ApplyFilter ==
    /\ fResult = "none"
    /\ fResult' = JsBool(FilterCallback(fEndpoint, fEvent, fSessionId, fResolved))
    /\ UNCHANGED <<fEndpoint, fSessionId, fResolved, fEvent, exceptFilter>>


FilterNext == ApplyFilter

-----------------------------------------------------------------------------
(* Typed client hooks: useSessionsSSE, useMovementsSSE, useAlertsSSE,      *)
(* useMetricsSSE.  A row is [id, v]; v stands for the row's other columns. *)

MaxColl == 3    \* longest collection explored
HookIds  == 1..2
HookVals == 0..1
HookRows == [id : HookIds, v : HookVals]
HookKinds == {"sessions", "movements", "alerts", "metrics"}

RECURSIVE SeqSome(_, _)
\* prev.some(row => row.id === id)
SeqSome(seq, id) ==
    IF seq = <<>> THEN FALSE
    ELSE Head(seq).id = id \/ SeqSome(Tail(seq), id)

RECURSIVE SeqMapMerge(_, _)
\* prev.map(row => row.id === data.id ? {...row, ...data} : row)
SeqMapMerge(seq, data) ==
    IF seq = <<>> THEN <<>>
    ELSE <<IF Head(seq).id = data.id THEN data ELSE Head(seq)>>
         \o SeqMapMerge(Tail(seq), data)

RECURSIVE SeqFilterOut(_, _)
\* prev.filter(row => row.id !== data.id)
SeqFilterOut(seq, id) ==
    IF seq = <<>> THEN <<>>
    ELSE (IF Head(seq).id # id THEN <<Head(seq)>> ELSE <<>>)
         \o SeqFilterOut(Tail(seq), id)

\* useSessionsSSE: the INSERT case checks for an existing entry first
SessionsInsert(prev, data) ==
    IF SeqSome(prev, data.id) THEN prev ELSE prev \o <<data>>

\* useMovementsSSE, useAlertsSSE, useMetricsSSE: the INSERT case appends
PlainInsert(prev, data) == prev \o <<data>>

\* the UPDATE case of every hook
HookUpdate(prev, data) == SeqMapMerge(prev, data)

\* the DELETE case of every hook
HookDelete(prev, data) == SeqFilterOut(prev, data.id)

\* setX(prev => switch (action) ...) of the hook `kind`
HookReduce(kind, prev, action, data) ==
    CASE action = "INSERT" ->
            IF kind = "sessions" THEN SessionsInsert(prev, data)
            ELSE PlainInsert(prev, data)
      [] action = "UPDATE" -> HookUpdate(prev, data)
      [] action = "DELETE" -> HookDelete(prev, data)
      [] OTHER -> prev

NoMessage == [action |-> "none", id |-> 0, present |-> FALSE, raised |-> FALSE]

MaxErrors == 2     \* stream errors explored in one run

\* what GET /api/sessions can come back with: fetch() or response.json()
\* throws, or a body with `success` and, present or not, the list data.data
FetchLists == {<<>>} \cup {<<r>> : r \in {row \in HookRows : row.v = 0}}
FetchResults ==
    {[throws |-> TRUE, success |-> FALSE, data |-> "absent", list |-> <<>>]}
    \cup [throws : {FALSE}, success : {FALSE}, data : {"absent"}, list : {<<>>}]
    \cup [throws : {FALSE}, success : {TRUE}, data : {"absent"}, list : {<<>>}]
    \cup [throws : {FALSE}, success : BOOLEAN, data : {"list"}, list : FetchLists]
NoResult == [throws |-> FALSE, success |-> FALSE, data |-> "none", list |-> <<>>]

\* useState(true) for loading; no fetch has been started
NoFetch == [mounted |-> FALSE, loading |-> TRUE, inFlight |-> 0, errors |-> 0,
            last |-> NoResult]

\* useState([]) of one mounted hook
HooksInit ==
    /\ hKind \in HookKinds
    /\ hColl = <<>>
    /\ hPrev = <<>>
    /\ hLast = NoMessage
    /\ hFetch = NoFetch

HooksIdle ==
    /\ hKind = "sessions"
    /\ hColl = <<>>
    /\ hPrev = <<>>
    /\ hLast = NoMessage
    /\ hFetch = NoFetch

\* onMessage of the mounted hook for a `data` envelope carrying (action, data)
HookOnMessage(action, data) ==
    /\ hFetch.mounted          \* the stream is opened by an effect, after the mount
    /\ Len(hColl) < MaxColl \/ action # "INSERT"
    /\ hPrev' = hColl
    /\ hColl' = HookReduce(hKind, hColl, action, data)
    /\ hLast' = [action |-> action, id |-> data.id,
                 present |-> SeqSome(hColl, data.id), raised |-> FALSE]
    /\ hFetch' = IF hKind = "sessions" THEN hFetch
                  ELSE [hFetch EXCEPT !.loading = FALSE]    \* setLoading(false)
    /\ UNCHANGED <<hKind, exceptHooks>>

\* prev.filter(x => x.id !== data.id) when `data` is null: the callback reads
\* null.id for the first element and throws a TypeError; over an empty
\* collection it is never called
DeleteRaises(prev) == Len(prev) > 0

\* onMessage of the mounted hook for the DELETE the trigger emits: the payload
\* has data = row_to_json(NEW) = null and the deleted row in old_data, which
\* the hook never reads. The envelope is truthy, `const { action, data }`
\* binds data to null, and the updater throws when it runs; the state keeps
\* its value. setLoading(false) of the other hooks is still reached.
HookOnProducerDelete(old) ==
    /\ hFetch.mounted
    /\ hPrev' = hColl
    /\ hColl' = IF DeleteRaises(hColl) THEN hColl ELSE <<>>
    /\ hLast' = [action |-> "DELETE", id |-> old.id,
                 present |-> SeqSome(hColl, old.id),
                 raised |-> DeleteRaises(hColl)]
    /\ hFetch' = IF hKind = "sessions" THEN hFetch
                  ELSE [hFetch EXCEPT !.loading = FALSE]
    /\ UNCHANGED <<hKind, exceptHooks>>

\* fetchInitialData() is called: setLoading(true), then await fetch(...)
fetchInitialData(f) ==
    [f EXCEPT !.loading = TRUE, !.inFlight = @ + 1]

\* the effect that runs once after the first render: only useSessionsSSE has one
HookMount ==
    /\ ~hFetch.mounted
    /\ hFetch' = IF hKind = "sessions"
                  THEN [fetchInitialData(hFetch) EXCEPT !.mounted = TRUE]
                  ELSE [hFetch EXCEPT !.mounted = TRUE]
    /\ UNCHANGED <<hKind, hColl, hPrev, hLast, exceptHooks>>

\* data.success && data.data?.data : an array, even an empty one, is truthy
HasList(result) == ~result.throws /\ result.success /\ result.data = "list"

\* the collection fetchInitialData stores for a result
FetchedListKeepsStale(prev, result) ==
    IF HasList(result) THEN result.list ELSE prev
FetchedList(prev, result) ==
    IF HasList(result) THEN result.list ELSE <<>>

\* fetchInitialData resumes with the outcome of fetch() and response.json()
FetchCompletes(result) ==
    /\ hFetch.inFlight > 0
    /\ hPrev' = hColl
    /\ hColl' = FetchedList(hColl, result)
    /\ hLast' = [action |-> "FETCH", id |-> 0, present |-> FALSE,
                 raised |-> FALSE]
    /\ hFetch' = [hFetch EXCEPT !.loading = FALSE,              \* finally
                                 !.inFlight = @ - 1, !.last = result]
    /\ UNCHANGED <<hKind, exceptHooks>>

\* the onError option the hook `kind` passes to useSSE
HasOnError(kind) == kind = "sessions"

\* The stream of the mounted hook reports an error: useSSE calls
\* onError?.(event), which only useSessionsSSE passes.
HookOnError ==
    /\ hFetch.mounted
    /\ hFetch.errors < MaxErrors
    /\ hFetch' = IF HasOnError(hKind)
                  THEN [fetchInitialData(hFetch) EXCEPT !.errors = @ + 1]
                  ELSE [hFetch EXCEPT !.errors = @ + 1]
    /\ UNCHANGED <<hKind, hColl, hPrev, hLast, exceptHooks>>

HooksNext ==
    \/ \E action \in Actions, data \in HookRows : HookOnMessage(action, data)
    \/ \E old \in HookRows : HookOnProducerDelete(old)
    \/ HookMount
    \/ \E result \in FetchResults : FetchCompletes(result)
    \/ HookOnError

-----------------------------------------------------------------------------
(* SSEConnectionService: the client connection manager                     *)

MaxTransports == 3      \* EventSource objects one manager may create in a run
TransportIds == 1..MaxTransports

Op(op, outcome) == [op |-> op, outcome |-> outcome]

ClientInit ==
    /\ connectionState = "idle"
    /\ eventSource = 0
    /\ isDestroyed = FALSE
    /\ reconnectTimeout = 0
    /\ connectionTimeout = FALSE
    /\ esState = [t \in TransportIds |-> "none"]
    /\ nOpened = 0
    /\ cLastOp = Op("none", "-")
    /\ cDestroyCalled = FALSE

\* clearTimeout(this.reconnectTimeout) on n outstanding reconnect timers: the
\* timer the field names is cancelled
ClearTimer(n) == IF n > 0 THEN n - 1 ELSE 0

\* setupAutoReconnect on n outstanding reconnect timers: the timers outstanding
\* after the call
setupAutoReconnectKeeps(n) == n + 1
setupAutoReconnect(n) == ClearTimer(n) + 1

\* the reconnect timers outstanding once the callback of one of them runs
Outstanding(fromTimer) == IF fromTimer THEN reconnectTimeout - 1 ELSE reconnectTimeout

\* connect(): the early return when a connection is in progress or established
ConnectSkipsOnlyConnected == connectionState = "connected"
ConnectSkips == connectionState \in {"connecting", "connected"}

\* connect(): the fail-fast check
ConnectNeverRejects == FALSE
ConnectRejects == isDestroyed

\* The body of connect(endpoint, handlers, options); `fromTimer` says that the
\* reconnect timer's callback is the caller (its timer has fired).
ConnectBody(fromTimer) ==
    LET op == IF fromTimer THEN "reconnect_timer" ELSE "connect" IN
    IF ConnectRejects
    THEN /\ cLastOp' = Op(op, "throw")
         /\ reconnectTimeout' = Outstanding(fromTimer)
         /\ UNCHANGED <<connectionState, eventSource, isDestroyed,
                        connectionTimeout, esState, nOpened>>
    ELSE IF ConnectSkips
    THEN /\ cLastOp' = Op(op, "noop")
         /\ reconnectTimeout' = Outstanding(fromTimer)
         /\ UNCHANGED <<connectionState, eventSource, isDestroyed,
                        connectionTimeout, esState, nOpened>>
    ELSE /\ nOpened < MaxTransports
         /\ connectionState' = "connecting"
         /\ reconnectTimeout' = ClearTimer(Outstanding(fromTimer))   \* _clearTimeouts
         /\ nOpened' = nOpened + 1
         /\ eventSource' = nOpened + 1              \* new EventSource(url)
         /\ esState' = [esState EXCEPT ![nOpened + 1] = "connecting"]
         /\ connectionTimeout' = TRUE               \* _setupConnectionTimeout
         /\ cLastOp' = Op(op, "opened")
         /\ UNCHANGED isDestroyed

\* A caller invokes connect()
Connect ==
    /\ ConnectBody(FALSE)
    /\ UNCHANGED <<cDestroyCalled, exceptClient>>

\* The body of disconnect()
DisconnectBody ==
    /\ reconnectTimeout' = ClearTimer(reconnectTimeout)     \* _clearTimeouts
    /\ connectionTimeout' = FALSE
    /\ esState' = IF eventSource # 0
                  THEN [esState EXCEPT ![eventSource] = "closed"]
                  ELSE esState
    /\ eventSource' = 0
    /\ connectionState' = "disconnected"

Disconnect ==
    /\ DisconnectBody
    /\ cLastOp' = Op("disconnect", "-")
    /\ UNCHANGED <<isDestroyed, nOpened, cDestroyCalled, exceptClient>>

\* destroy(): mark the manager unusable, then disconnect()
DestroyFlag == TRUE

Destroy ==
    /\ isDestroyed' = DestroyFlag
    /\ DisconnectBody
    /\ cLastOp' = Op("destroy", "-")
    /\ cDestroyCalled' = TRUE
    /\ UNCHANGED <<nOpened, exceptClient>>

\* eventSource.onopen of transport t (a transport never closed keeps its handlers)
OnOpen(t) ==
    /\ esState[t] = "connecting"
    /\ esState' = [esState EXCEPT ![t] = "open"]
    /\ connectionState' = "connected"
    /\ cLastOp' = Op("onopen", "-")
    /\ UNCHANGED <<eventSource, isDestroyed, reconnectTimeout, connectionTimeout,
                   nOpened, cDestroyCalled>>

TransportOpen(t) == OnOpen(t) /\ UNCHANGED exceptClient

\* SSEMessage['type']
MessageTypes == {"connection", "data", "error", "heartbeat", "test"}

\* event.data of an inbound message: text that is not JSON, the JSON literal
\* null, or a JSON object whose type and timestamp are a string, the empty
\* string, or absent
InboundTypes == MessageTypes \cup {"bogus", "", Undefined}
InboundStamps == {"2024-01-01T00:00:00Z", "", Undefined}
RawMessages ==
    [json : {"object"}, type : InboundTypes, timestamp : InboundStamps]
    \cup [json : {"malformed", "null"}, type : {Undefined}, timestamp : {Undefined}]
NullMessage == [json |-> "none", type |-> Null, timestamp |-> Null]

\* !data.type : undefined, null and the empty string are falsy
Absent(v) == v = Undefined \/ Falsy(v)

\* isValidMessageType(type)
isValidMessageType(type) == type \in MessageTypes

\* parseMessage: JSON.parse throws on text that is not JSON, and data.type
\* throws on null; both are caught and give null
parseMessage(raw) ==
    IF raw.json # "object" THEN NullMessage
    ELSE IF Absent(raw.type) \/ Absent(raw.timestamp) THEN NullMessage
    ELSE raw

\* one inbound message for each way parseMessage can end
InboundSamples ==
    {raw \in RawMessages :
        raw.type \in {"data", Undefined}
        /\ raw.timestamp \in InboundStamps \ {""}
        /\ ~(raw.json = "object" /\ raw.type = Undefined
                                 /\ raw.timestamp = Undefined)}

\* eventSource.onmessage of transport t: handlers.onMessage runs only for a
\* message parseMessage returns
OnMessage(t, raw) ==
    /\ esState[t] = "open"
    /\ cLastOp' = [op |-> "onmessage",
                   outcome |-> IF parseMessage(raw) # NullMessage
                               THEN "delivered" ELSE "dropped",
                   msg |-> raw]
    /\ UNCHANGED <<connectionState, eventSource, isDestroyed, reconnectTimeout,
                   connectionTimeout, esState, nOpened, cDestroyCalled>>

TransportMessage(t, raw) == OnMessage(t, raw) /\ UNCHANGED exceptClient

\* eventSource.onerror of transport t.  The browser either retries the transport
\* itself (readyState CONNECTING) or gives up (CLOSED).  handlers.onError of the
\* hook calls setupAutoReconnect when autoReconnect is set and the hook is mounted.
OnError(t, next, autoReconnect) ==
    /\ esState[t] \in {"connecting", "open"}
    /\ esState' = [esState EXCEPT ![t] = next]
    /\ connectionState' = "error"
    /\ reconnectTimeout' = IF autoReconnect THEN setupAutoReconnect(reconnectTimeout)
                                           ELSE reconnectTimeout
    /\ cLastOp' = Op("onerror", "-")
    /\ UNCHANGED <<eventSource, isDestroyed, connectionTimeout, nOpened,
                   cDestroyCalled>>

TransportError(t, next, autoReconnect) ==
    OnError(t, next, autoReconnect) /\ UNCHANGED exceptClient

\* The callback of the timer armed by _setupConnectionTimeout
ConnectionTimeoutFires ==
    /\ connectionTimeout
    /\ IF connectionState = "connecting"
       THEN DisconnectBody       \* state = 'error', then disconnect()
       ELSE /\ connectionTimeout' = FALSE
            /\ UNCHANGED <<connectionState, eventSource, reconnectTimeout, esState>>
    /\ cLastOp' = Op("timeout", "-")
    /\ UNCHANGED <<isDestroyed, nOpened, cDestroyCalled, exceptClient>>

\* The callback of the timer armed by setupAutoReconnect
OnReconnectTimer ==
    /\ reconnectTimeout > 0
    /\ IF ~isDestroyed /\ connectionState # "connected"
       THEN ConnectBody(TRUE)
       ELSE /\ reconnectTimeout' = reconnectTimeout - 1
            /\ cLastOp' = Op("reconnect_timer", "skipped")
            /\ UNCHANGED <<connectionState, eventSource, isDestroyed,
                           connectionTimeout, esState, nOpened>>
    /\ UNCHANGED cDestroyCalled

ReconnectTimerFires == OnReconnectTimer /\ UNCHANGED exceptClient

ClientNext ==
    \/ Connect
    \/ Disconnect
    \/ Destroy
    \/ \E t \in TransportIds : TransportOpen(t)
    \/ \E t \in TransportIds, raw \in RawMessages : TransportMessage(t, raw)
    \/ \E t \in TransportIds, next \in {"connecting", "closed"}, ar \in BOOLEAN :
          TransportError(t, next, ar)
    \/ ConnectionTimeoutFires
    \/ ReconnectTimerFires

-----------------------------------------------------------------------------
(* DatabaseListenerService: the channel listener                           *)

MaxRetries == 3     \* config.maxRetries
MaxCalls   == 4     \* listen()/unlisten() calls explored in one run
MaxNotes   == 2     \* notifications followed callback by callback in one run
NumCallers == 2     \* callers, each with its own callback

Channels == {"session_changes", "movement_changes"}
Callers  == 1..NumCallers
\* the callback cleanup() hands to unlisten: a function object created on the spot
FreshCallback == 0

\* the current Client object after its connection to the server was lost
LostClient == 2

NoCall == [pc |-> "idle", ch |-> "-", cb |-> FreshCallback, result |-> "none"]
NoNote == "-"
NoThrower == 0       \* no callback throws
NoDispatch == [n |-> 0, thrower |-> NoThrower,
               received |-> [c \in Callers |-> <<>>]]

ListenerInit ==
    /\ client = 0
    /\ isConnected = FALSE
    /\ connectionPromise = "null"
    /\ connRetries = 0
    /\ connPhase = "idle"
    /\ connDelay = 0
    /\ connSeqs = 0
    /\ connAttempts = 0
    /\ listeners = [ch \in {} |-> <<>>]
    /\ dispatched = NoDispatch
    /\ handlers = [ch \in Channels |-> 0]
    /\ queries = <<>>
    /\ pgListen = {}
    /\ calls = [c \in Callers |-> NoCall]
    /\ listenCmds = [ch \in Channels |-> 0]
    /\ unlistenCmds = [ch \in Channels |-> 0]
    /\ nCalls = 0
    /\ overlapped = FALSE
    /\ queryFailed = FALSE
    /\ cbCalls = [c \in Callers |-> 0]
    /\ lastNote = NoNote

\* getListenerCount(channel)
\* the members of a Set, which iterates in insertion order
SetOf(set) == {set[i] : i \in 1..Len(set)}

getListenerCount(ch) ==
    IF ch \in DOMAIN listeners THEN Len(listeners[ch]) ELSE 0

\* listeners.get(channel)!.add(callback), creating the Set when the key is missing
MapAdd(m, ch, cb) ==
    [k \in DOMAIN m \cup {ch} |->
        IF k # ch THEN m[k]
        ELSE LET old == IF ch \in DOMAIN m THEN m[ch] ELSE <<>> IN
             IF cb \in SetOf(old) THEN old ELSE Append(old, cb)]

\* callbacks.delete(callback)
MapRemove(m, ch, cb) == [m EXCEPT ![ch] = SelectSeq(@, LAMBDA x : x # cb)]

\* listeners.delete(channel)
MapDelete(m, ch) == [k \in DOMAIN m \ {ch} |-> m[k]]

InFlight(cs) == {c \in DOMAIN cs : cs[c].pc # "idle"}

\* history bookkeeping shared by the steps that start or resume a call
Track(newCalls) ==
    overlapped' = (overlapped \/ Cardinality(InFlight(newCalls)) > 1)

\* listen(): the test that decides whether LISTEN is sent
ListenNeededAlways(size) == size >= 1
ListenNeeded(size) == size = 1

\* unlisten(): the test that decides whether UNLISTEN is sent
UnlistenNeededAlways(size) == TRUE
UnlistenNeeded(size) == size = 0

\* listen() from "Add callback to listeners" on: the caller's connect() has resolved
ListenRegister(c, ch, cb) ==
    IF client = 0
    THEN /\ calls' = [calls EXCEPT ![c] = [NoCall EXCEPT !.result = "error"]]
         /\ UNCHANGED <<listeners, handlers, queries, listenCmds>>
    ELSE LET added == MapAdd(listeners, ch, cb) IN
         /\ listeners' = added
         /\ IF ListenNeeded(Len(added[ch]))
            THEN /\ queries' = Append(queries, [kind |-> "LISTEN", ch |-> ch, by |-> c])
                 /\ listenCmds' = [listenCmds EXCEPT ![ch] = @ + 1]
                 /\ calls' = [calls EXCEPT ![c] =
                                [pc |-> "listen_query", ch |-> ch, cb |-> cb,
                                 result |-> "none"]]
                 /\ UNCHANGED handlers
            ELSE /\ handlers' = [handlers EXCEPT ![ch] = @ + 1]   \* client.on
                 /\ calls' = [calls EXCEPT ![c] = [NoCall EXCEPT !.result = "ok"]]
                 /\ UNCHANGED <<queries, listenCmds>>

\* _attemptConnection: a new Client, then await its connect()
AttemptConnection ==
    /\ client' = 1
    /\ handlers' = [ch \in Channels |-> 0]     \* a new Client has no handlers
    /\ pgListen' = {}
    /\ connPhase' = "attempting"
    /\ connDelay' = 0
    /\ connAttempts' = connAttempts + 1

\* connect(): an attempt sequence is in flight and its promise is returned
ConnectSharesNever == FALSE
ConnectShares == connectionPromise = "pending"

\* _connectWithRetry: the delay after a failed attempt, in units of
\* connectionTimeoutMillis, with `retries` attempts left
BackoffDelayByRetriesLeft(max, retries) == retries
BackoffDelay(max, retries) == max - retries

\* listen(channel, callback) is called: await this.connect()
listen(c, ch, cb) ==
    /\ calls[c].pc = "idle"
    /\ nCalls < MaxCalls
    /\ nCalls' = nCalls + 1
    /\ IF isConnected /\ client # 0
       THEN /\ ListenRegister(c, ch, cb)
            /\ UNCHANGED <<connVars, pgListen>>
       ELSE /\ calls' = [calls EXCEPT ![c] =
                            [pc |-> "await_connect", ch |-> ch, cb |-> cb,
                             result |-> "none"]]
            /\ IF ConnectShares
               THEN UNCHANGED <<connVars, handlers, pgListen>>
               ELSE /\ connectionPromise' = "pending"     \* _connectWithRetry
                    /\ connRetries' = MaxRetries
                    /\ connSeqs' = connSeqs + 1
                    /\ AttemptConnection
                    /\ UNCHANGED isConnected
            /\ UNCHANGED <<listeners, queries, listenCmds>>
    /\ Track(calls')
    /\ UNCHANGED <<unlistenCmds, queryFailed, cbCalls, lastNote>>

ListenCall(c, ch, cb) == listen(c, ch, cb) /\ UNCHANGED exceptListener

\* the connection attempt in flight succeeds: every awaiting connect() resolves
ConnectSucceeds ==
    /\ connPhase = "attempting"
    /\ isConnected' = TRUE
    /\ connectionPromise' = "null"
    /\ connPhase' = "idle"
    /\ calls' = [c \in Callers |->
                    IF calls[c].pc = "await_connect"
                    THEN [calls[c] EXCEPT !.pc = "connected"] ELSE calls[c]]
    /\ connRetries' = 0
    /\ connSeqs' = connSeqs - 1
    /\ connAttempts' = 0
    /\ UNCHANGED <<client, connDelay, listeners, handlers, queries, pgListen, listenCmds,
                   unlistenCmds, nCalls, overlapped, queryFailed, cbCalls, lastNote,
                   exceptListener>>

\* the connection attempt in flight fails: retry after a delay, or give up
ConnectFails ==
    /\ connPhase = "attempting"
    /\ connRetries' = connRetries - 1
    /\ IF connRetries - 1 = 0
       THEN /\ isConnected' = FALSE
            /\ client' = 0
            /\ connectionPromise' = "null"
            /\ connPhase' = "idle"
            /\ calls' = [c \in Callers |->
                            IF calls[c].pc = "await_connect"
                            THEN [NoCall EXCEPT !.result = "error"] ELSE calls[c]]
            /\ connSeqs' = connSeqs - 1
            /\ connAttempts' = 0
            /\ UNCHANGED connDelay
       ELSE /\ connPhase' = "delaying"
            /\ connDelay' = BackoffDelay(MaxRetries, connRetries - 1)
            /\ UNCHANGED <<isConnected, client, connectionPromise, calls, connSeqs,
                           connAttempts>>
    /\ UNCHANGED <<listeners, handlers, queries, pgListen, listenCmds,
                   unlistenCmds, nCalls, overlapped, queryFailed, cbCalls, lastNote,
                   exceptListener>>

\* the backoff delay has elapsed: the next attempt starts
ConnectRetry ==
    /\ connPhase = "delaying"
    /\ AttemptConnection
    /\ UNCHANGED <<isConnected, connectionPromise, connRetries, connSeqs, listeners,
                   queries, calls, listenCmds, unlistenCmds, nCalls, overlapped, queryFailed,
                   cbCalls, lastNote, exceptListener>>

\* listen() resumes after await this.connect()
ListenResume(c) ==
    /\ calls[c].pc = "connected"
    /\ ListenRegister(c, calls[c].ch, calls[c].cb)
    /\ Track(calls')
    /\ UNCHANGED <<connVars, pgListen, unlistenCmds, nCalls, queryFailed, cbCalls, lastNote,
                   exceptListener>>

\* unlisten(channel, callback) is called
unlisten(c, ch, cb) ==
    /\ calls[c].pc = "idle"
    /\ nCalls < MaxCalls
    /\ nCalls' = nCalls + 1
    /\ IF ch \notin DOMAIN listeners
       THEN /\ calls' = [calls EXCEPT ![c] = [NoCall EXCEPT !.result = "ok"]]
            /\ UNCHANGED <<listeners, queries, unlistenCmds>>
       ELSE LET removed == MapRemove(listeners, ch, cb) IN
            IF UnlistenNeeded(Len(removed[ch]))
            THEN IF client # 0
                 THEN /\ listeners' = removed
                      /\ queries' = Append(queries,
                                      [kind |-> "UNLISTEN", ch |-> ch, by |-> c])
                      /\ unlistenCmds' = [unlistenCmds EXCEPT ![ch] = @ + 1]
                      /\ calls' = [calls EXCEPT ![c] =
                                     [pc |-> "unlisten_query", ch |-> ch, cb |-> cb,
                                      result |-> "none"]]
                 ELSE /\ listeners' = MapDelete(removed, ch)
                      /\ calls' = [calls EXCEPT ![c] = [NoCall EXCEPT !.result = "ok"]]
                      /\ UNCHANGED <<queries, unlistenCmds>>
            ELSE /\ listeners' = removed
                 /\ calls' = [calls EXCEPT ![c] = [NoCall EXCEPT !.result = "ok"]]
                 /\ UNCHANGED <<queries, unlistenCmds>>
    /\ Track(calls')
    /\ UNCHANGED <<connVars, handlers, pgListen, listenCmds, queryFailed, cbCalls, lastNote>>

UnlistenCall(c, ch, cb) == unlisten(c, ch, cb) /\ UNCHANGED exceptListener

\* The command at the head of the client's queue completes; its caller resumes:
\* listen() attaches its 'notification' handler, unlisten() deletes the Map key.
QueryDone(ok) ==
    /\ queries # <<>>
    /\ client = LostClient => ~ok       \* a command on a lost connection rejects
    /\ LET q == Head(queries) IN
       /\ queries' = Tail(queries)
       /\ queryFailed' = (queryFailed \/ ~ok)
       /\ IF ~ok
          THEN /\ calls' = [calls EXCEPT ![q.by] = [NoCall EXCEPT !.result = "error"]]
               /\ UNCHANGED <<listeners, handlers, pgListen>>
          ELSE /\ calls' = [calls EXCEPT ![q.by] = [NoCall EXCEPT !.result = "ok"]]
               /\ IF q.kind = "LISTEN"
                  THEN /\ pgListen' = pgListen \cup {q.ch}
                       /\ handlers' = [handlers EXCEPT ![q.ch] = @ + 1]
                       /\ UNCHANGED listeners
                  ELSE /\ pgListen' = pgListen \ {q.ch}
                       /\ listeners' = MapDelete(listeners, q.ch)
                       /\ UNCHANGED handlers
    /\ UNCHANGED <<connVars, listenCmds, unlistenCmds, nCalls, overlapped, cbCalls, lastNote,
                   exceptListener>>

\* How often one notification on ch invokes callback cb: every handler attached
\* for ch runs callbacks.forEach(cb => cb(data)) on the channel's current Set.
Invocations(ch, cb) ==
    IF ch \in DOMAIN listeners /\ cb \in SetOf(listeners[ch]) THEN handlers[ch] ELSE 0

\* msg.payload of a notification: a JSON text, nothing, or text that is not JSON
Payloads == {"object", "empty", "malformed"}

\* JSON.parse(msg.payload || '{}') returns
PayloadParsesAlways(payload) == TRUE
PayloadParses(payload) == payload # "malformed"

\* The server notifies on ch; the client emits 'notification'. Every handler of
\* the channel parses the payload and runs the callbacks inside one try, whose
\* catch drops the notification.
Dispatch(ch, payload) ==
    /\ isConnected
    /\ ch \in pgListen
    /\ cbCalls' = [c \in Callers |->
                     IF PayloadParses(payload) THEN Invocations(ch, c) ELSE 0]
    /\ lastNote' = payload
    /\ UNCHANGED <<connVars, listeners, handlers, queries, pgListen, calls,
                   listenCmds, unlistenCmds, nCalls, overlapped, queryFailed>>

Notify(ch, payload) == Dispatch(ch, payload) /\ UNCHANGED exceptListener

\* callbacks.forEach(cb => cb(data)) inside the try: the callbacks invoked, in
\* insertion order, up to and including the first one that throws
ReachedFirstOnly(set, thrower) == IF set = <<>> THEN {} ELSE {set[1]}
Reached(set, thrower) ==
    IF thrower \in SetOf(set)
    THEN {set[i] : i \in {j \in 1..Len(set) : \A k \in 1..(j - 1) : set[k] # thrower}}
    ELSE SetOf(set)

\* A notification with a well-formed payload on ch, followed callback by
\* callback; `thrower` is the callback that throws when it is invoked.
Deliver(ch, thrower) ==
    /\ isConnected
    /\ ch \in pgListen
    /\ dispatched.n < MaxNotes
    /\ LET set == IF ch \in DOMAIN listeners THEN listeners[ch] ELSE <<>>
           got == IF handlers[ch] > 0 THEN Reached(set, thrower) ELSE {}
       IN  /\ cbCalls' = [c \in Callers |-> IF c \in got THEN handlers[ch] ELSE 0]
           /\ dispatched' =
                 [n |-> dispatched.n + 1, thrower |-> thrower,
                  received |-> [c \in Callers |->
                                  IF c \in got
                                  THEN Append(dispatched.received[c], dispatched.n + 1)
                                  ELSE dispatched.received[c]]]
    /\ lastNote' = "object"
    /\ UNCHANGED <<connVars, listeners, handlers, queries, pgListen, calls,
                   listenCmds, unlistenCmds, nCalls, overlapped, queryFailed,
                   exceptDispatch>>

\* disconnect() while no call and no command is in flight: client.end()
\* resolves, then the connection fields are reset; this.listeners is kept
disconnect ==
    /\ isConnected /\ client = 1
    /\ queries = <<>>
    /\ \A c \in Callers : calls[c].pc = "idle"
    /\ isConnected' = FALSE
    /\ client' = 0
    /\ connectionPromise' = "null"
    /\ pgListen' = {}
    /\ handlers' = [ch \in Channels |-> 0]
    /\ UNCHANGED <<connRetries, connPhase, connDelay, connSeqs, connAttempts,
                   listeners, queries, calls, listenCmds, unlistenCmds, nCalls,
                   overlapped, queryFailed, cbCalls, lastNote, exceptListener>>

\* The server or the network drops the connection of the current Client. No
\* 'error' or 'end' handler is attached to it, so no field of the service changes:
\* isConnected stays true and client stays set; the server forgets its LISTENs.
ConnectionLost ==
    /\ isConnected /\ client = 1 /\ connPhase = "idle"
    /\ client' = LostClient
    /\ pgListen' = {}
    /\ UNCHANGED <<isConnected, connectionPromise, connRetries, connPhase, connDelay,
                   connSeqs, connAttempts, listeners, handlers, queries, calls,
                   listenCmds, unlistenCmds, nCalls, overlapped, queryFailed,
                   cbCalls, lastNote, exceptListener>>

\* Callers of the listener's interface; a caller passes its own callback and does
\* not register it twice on one channel.
ListenerStepsOf(Chs) ==
    \/ \E c \in Callers, ch \in Chs :
          /\ ~(ch \in DOMAIN listeners /\ c \in SetOf(listeners[ch]))
          /\ ListenCall(c, ch, c)
    \/ \E c \in Callers, ch \in Chs : UnlistenCall(c, ch, c)
    \/ \E c \in Callers : ListenResume(c)
    \/ ConnectSucceeds
    \/ ConnectFails
    \/ ConnectRetry
    \/ \E ok \in BOOLEAN : QueryDone(ok)

ListenerNextOf(Chs) ==
    \/ ListenerStepsOf(Chs)
    \/ \E ch \in Chs, payload \in Payloads : Notify(ch, payload)

ListenerNext == ListenerNextOf(Channels)

-----------------------------------------------------------------------------
(* SSEHandler: the stream session of one sessions-endpoint request          *)

DebounceMs        == 500     \* setTimeout(..., 500)
messageThrottleMs == 1000
ListenRetries     == 3       \* let retries = 3

NumSessions == 1     \* requests served in one run
MaxTicks    == 4     \* clock ticks explored in one run
MaxEvents   == 3     \* notifications explored in one run
MaxCleanups == 2     \* cleanup() calls on one session explored in one run

\* the clock advances in half debounce delays
TickMs    == DebounceMs \div 2
\* Date.now() when the process starts: far more than the throttle after time 0
StartTime == messageThrottleMs
EndTime   == StartTime + MaxTicks * TickMs

Sessions == 1..NumSessions
SessionChannel == "session_changes"
SessionIdFilters == {Null, "A"}

Stamps == {"t1", "t2"}
StreamRows ==
    [id : {"A"}, session_id : {Undefined}, is_resolved : {Undefined},
     updated_at : Stamps]
    \cup [id : {"B"}, session_id : {Undefined}, is_resolved : {Undefined},
          updated_at : {"t1"}]
\* the notifications of the sessions table: row changes, and a DELETE, whose
\* payload has data = null
StreamEvents ==
    [table : {"sessions"}, action : {"UPDATE"}, data : StreamRows]
    \cup [table : {"sessions"}, action : {"DELETE"}, data : {NullRow}]

NoEvent == [table |-> Null, action |-> Null, data |-> NullRow]
NoHash  == <<Null>>

\* JSON.stringify({table, action, id: data?.id, updated_at: data?.updated_at})
dataHash(ev) == <<ev.table, ev.action, Field(ev, "id"), Field(ev, "updated_at")>>

\* Notifications as notify_session_change builds them: an UPDATE carries the
\* new row in data; a DELETE has data = null and the old row in old_data. A row
\* is its id, its updated_at (a sessions row has none) and `count`, which
\* stands for its other columns.
DedupRows == [id : {"A", "B"}, updated_at : {"t1", Undefined}, count : 0..1]
DedupEvents ==
    [table : {"sessions"}, action : {"UPDATE"}, data : DedupRows,
     old_id : {Undefined}]
    \cup [table : {"sessions"}, action : {"DELETE"}, data : {NullRow},
          old_id : {"A", "B"}]
NoDedup == [last |-> NoEvent, next |-> NoEvent, verdict |-> "idle"]

DedupInit ==
    dedup \in [last : DedupEvents, next : DedupEvents, verdict : {"none"}]
DedupIdle == dedup = NoDedup

\* The debounce callback with `next` pending after `last` was sent:
\* if (this.lastSentDataHash === dataHash) the pending event is discarded
DedupCompare ==
    /\ dedup.verdict = "none"
    /\ dedup' = [dedup EXCEPT !.verdict =
                    IF dataHash(dedup.last) = dataHash(dedup.next)
                    THEN "discarded" ELSE "sent"]
    /\ UNCHANGED exceptDedup

\* this.pendingData = data
StorePendingKeepFirst(old, data) == IF old = NoEvent THEN data ELSE old
StorePending(old, data) == data

\* now - this.lastMessageTime < this.messageThrottleMs
ThrottledHalfInterval(t, last) == t - last < messageThrottleMs \div 2
Throttled(t, last) == t - last < messageThrottleMs

NoHist == [lastAccepted |-> NoEvent, lastArrival |-> 0,
           burstLen |-> 0, burstSends |-> 0,
           runLen |-> 0, runSends |-> 0, runFresh |-> FALSE,
           late |-> FALSE,
           listens |-> 0, startFailed |-> FALSE, cleanups |-> 0,
           lateFires |-> 0, lastDataAt |-> 0, throttled |-> FALSE]

SessionInit ==
    /\ sPc = [s \in Sessions |-> "none"]
    /\ sFilter = [s \in Sessions |-> Null]
    /\ sRetries = [s \in Sessions |-> 0]
    /\ isClosed = [s \in Sessions |-> FALSE]
    /\ heartbeatInterval = [s \in Sessions |-> FALSE]
    /\ debounceTimeout = [s \in Sessions |-> 0]
    /\ pendingData = [s \in Sessions |-> NoEvent]
    /\ lastSentDataHash = [s \in Sessions |-> NoHash]
    /\ lastMessageTime = [s \in Sessions |-> 0]
    /\ aborted = [s \in Sessions |-> FALSE]
    /\ cancelled = [s \in Sessions |-> FALSE]
    /\ ctrlClosed = [s \in Sessions |-> FALSE]
    /\ lastMsg = [s \in Sessions |-> "none"]
    /\ sendLog = [s \in Sessions |-> [errors |-> 0, late |-> FALSE, first |-> <<>>]]
    /\ lastData = [s \in Sessions |-> NoEvent]
    /\ hist = [s \in Sessions |-> NoHist]
    /\ now = StartTime
    /\ nEvents = 0

\* sendMessage: the message is enqueued unless the session is closed or the
\* controller refuses it ("Invalid state" once the stream is cancelled or closed)
Enqueued(s) == ~isClosed[s] /\ ~cancelled[s] /\ ~ctrlClosed[s]
\* isClosed after sendMessage: a refused enqueue marks the session closed
ClosedAfterSend(s) == isClosed[s] \/ cancelled[s] \/ ctrlClosed[s]

\* cleanup() has been entered for the session
CleanupRan(s) == sPc[s] \in {"cleaning", "closed"}

\* the first two messages enqueued on a stream, kept as history
Logged(first, type) == IF Len(first) < 2 THEN Append(first, type) ELSE first

sendMessage(s, type) ==
    /\ isClosed' = [isClosed EXCEPT ![s] = ClosedAfterSend(s)]
    /\ lastMsg' = [lastMsg EXCEPT ![s] = IF Enqueued(s) THEN type ELSE @]
    /\ sendLog' = [sendLog EXCEPT ![s] =
                     IF Enqueued(s)
                     THEN [errors |-> IF type = "error" THEN @.errors + 1
                                      ELSE @.errors,
                           late   |-> @.late \/ CleanupRan(s),
                           first  |-> Logged(@.first, type)]
                     ELSE @]

\* start(): the messages sent before the heartbeat is armed
StartMessagesTestFirst == <<"test", "connection">>
StartMessages == <<"connection", "test">>

\* GET: a handler is constructed and start() runs up to its first listen()
SessionOpen(s, sid) ==
    /\ sPc[s] = "none"
    /\ sFilter' = [sFilter EXCEPT ![s] = sid]
    /\ lastMsg' = [lastMsg EXCEPT ![s] = StartMessages[2]]
    /\ sendLog' = [sendLog EXCEPT ![s].first =
                     Logged(Logged(@, StartMessages[1]), StartMessages[2])]
    /\ heartbeatInterval' = [heartbeatInterval EXCEPT ![s] = TRUE]
    /\ sRetries' = [sRetries EXCEPT ![s] = ListenRetries]
    /\ listen(s, SessionChannel, s)
    /\ sPc' = [sPc EXCEPT ![s] = "listening"]
    /\ hist' = [hist EXCEPT ![s].listens = 1]
    /\ UNCHANGED <<aborted, cancelled, ctrlClosed, paceVars, isClosed,
                   lastData, now, nEvents, exceptSession>>

\* setupDatabaseListener: if (retries === 0)
RetriesExhaustedLate(retries) == retries < 0
RetriesExhausted(retries) == retries = 0

\* the session's listen() has returned or thrown
ListenReturns(s) ==
    /\ sPc[s] = "listening"
    /\ calls[s].pc = "idle"
    /\ IF calls[s].result = "ok"
       THEN /\ sPc' = [sPc EXCEPT ![s] = "streaming"]
            /\ sRetries' = [sRetries EXCEPT ![s] = 0]
            /\ UNCHANGED <<isClosed, lastMsg, sendLog, hist>>
       ELSE /\ sRetries' = [sRetries EXCEPT ![s] = @ - 1]
            /\ IF RetriesExhausted(sRetries[s] - 1)
               THEN /\ sendMessage(s, "error")
                    /\ sPc' = [sPc EXCEPT ![s] = "streaming"]
                    /\ hist' = [hist EXCEPT ![s].startFailed = TRUE]
               ELSE /\ sPc' = [sPc EXCEPT ![s] = "retry_wait"]
                    /\ UNCHANGED <<isClosed, lastMsg, sendLog, hist>>
    /\ UNCHANGED <<sFilter, heartbeatInterval, aborted, cancelled, ctrlClosed, paceVars,
                   lastData, now, nEvents, listenerVars, exceptSession>>

\* the wait before the next listen() attempt is over
SessionRetry(s) ==
    /\ sPc[s] = "retry_wait"
    /\ listen(s, SessionChannel, s)
    /\ sPc' = [sPc EXCEPT ![s] = "listening"]
    /\ hist' = [hist EXCEPT ![s].listens = @ + 1]
    /\ UNCHANGED <<sFilter, sRetries, heartbeatInterval, aborted, cancelled,
                   ctrlClosed, paceVars, outVars, now, nEvents, exceptSession>>

\* cleanup: this.isClosed = true
MarkClosedKeeps(closed) == closed
MarkClosed(closed) == TRUE

\* cleanup() up to its await of unlisten(channel, () => {})
cleanup(s) ==
    /\ isClosed' = [isClosed EXCEPT ![s] = MarkClosed(@)]
    /\ heartbeatInterval' = [heartbeatInterval EXCEPT ![s] = FALSE]
    /\ debounceTimeout' = [debounceTimeout EXCEPT ![s] = 0]
    /\ unlisten(s, SessionChannel, FreshCallback)
    /\ sPc' = [sPc EXCEPT ![s] = "cleaning"]
    /\ hist' = [hist EXCEPT ![s].cleanups = @ + 1]

\* The client goes away. The 'abort' listener exists only once start() has
\* returned; an abort before that reaches no listener.
ClientAbort(s) ==
    /\ sPc[s] \in {"listening", "retry_wait", "streaming"}
    /\ ~aborted[s]
    /\ aborted' = [aborted EXCEPT ![s] = TRUE]
    /\ IF sPc[s] = "streaming"
       THEN cleanup(s)
       ELSE UNCHANGED <<isClosed, heartbeatInterval, debounceTimeout, sPc, hist,
                        listenerVars>>
    /\ UNCHANGED <<sFilter, sRetries, cancelled, ctrlClosed, pendingData,
                   lastSentDataHash, lastMessageTime, lastMsg, sendLog, lastData,
                   now, nEvents, exceptSession>>

\* The runtime cancels the response stream of a client that has gone away; from
\* then on controller.enqueue throws. A session with isClosed set never reaches
\* enqueue again, so the cancellation is followed only while it is unset.
StreamCancel(s) ==
    /\ aborted[s]
    /\ ~cancelled[s]
    /\ ~isClosed[s]
    /\ cancelled' = [cancelled EXCEPT ![s] = TRUE]
    /\ UNCHANGED <<sPc, sFilter, sRetries, heartbeatInterval, aborted, ctrlClosed,
                   paceVars, outVars, hist, now, nEvents, listenerVars,
                   exceptSession>>

\* cleanup() resumes after unlisten: controller.close(), skipped when unlisten
\* threw; close() on a controller already closed throws and is caught
CleanupReturns(s) ==
    /\ sPc[s] = "cleaning"
    /\ calls[s].pc = "idle"
    /\ ctrlClosed' = [ctrlClosed EXCEPT ![s] = (@ \/ calls[s].result = "ok")]
    /\ sPc' = [sPc EXCEPT ![s] = "closed"]
    /\ UNCHANGED <<sFilter, sRetries, heartbeatInterval, aborted, cancelled, paceVars,
                   outVars, hist, now, nEvents, listenerVars, exceptSession>>

\* cleanup() is called once more on a session it has already closed
CleanupAgain(s) ==
    /\ sPc[s] = "closed"
    /\ hist[s].cleanups < MaxCleanups
    /\ cleanup(s)
    /\ UNCHANGED <<sFilter, sRetries, aborted, cancelled, ctrlClosed, pendingData,
                   lastSentDataHash, lastMessageTime, lastMsg, sendLog, lastData,
                   now, nEvents, exceptSession>>

\* the heartbeat interval fires
Heartbeat(s) ==
    /\ heartbeatInterval[s]
    /\ IF ~isClosed[s]
       THEN sendMessage(s, "heartbeat")
       ELSE UNCHANGED <<isClosed, lastMsg, sendLog>>
    /\ UNCHANGED <<lifeVars, paceVars, lastData, hist, now, nEvents, listenerVars,
                   exceptSession>>

\* the filter the sessions endpoint hands to the handler
AcceptsAll(s, ev) == TRUE
Accepts(s, ev) == SessionsFilter(ev, sFilter[s])

\* history after handleDataChange has accepted ev: a burst is a chain of accepted
\* events for one row id, each less than the debounce delay after the previous
\* one; a run is a chain of consecutive identical events
Arrived(s, ev) ==
    LET h    == hist[s]
        cont == /\ h.lastAccepted # NoEvent
                /\ now - h.lastArrival < DebounceMs
                /\ Field(h.lastAccepted, "id") = Field(ev, "id")
        same == h.lastAccepted = ev
    IN  [h EXCEPT !.lastAccepted = ev,
                  !.lastArrival  = now,
                  !.burstLen     = IF cont THEN @ + 1 ELSE 1,
                  !.burstSends   = IF cont THEN @ ELSE 0,
                  !.runLen       = IF same THEN @ + 1 ELSE 1,
                  !.runSends     = IF same THEN @ ELSE 0,
                  !.runFresh     = IF same THEN @
                                   ELSE lastSentDataHash[s] # dataHash(ev)]

\* history after a data message carrying ev has been enqueued
Sent(s, ev) ==
    [hist[s] EXCEPT !.lastDataAt = now,
                    !.burstSends = @ + 1,
                    !.runSends   = IF ev = hist[s].lastAccepted THEN @ + 1 ELSE @]

\* A notification on the sessions channel: the listener runs every registered
\* callback, i.e. handleDataChange of every subscribed session (filter, store
\* the event, re-arm the debounce timer).
SessionNotify(ev) ==
    /\ nEvents < MaxEvents
    /\ nEvents' = nEvents + 1
    /\ Dispatch(SessionChannel, "object")
    /\ LET called == {s \in Sessions : Invocations(SessionChannel, s) > 0}
           hit    == {s \in called : Accepts(s, ev)}
       IN  /\ pendingData' = [s \in Sessions |->
                IF s \in hit THEN StorePending(pendingData[s], ev)
                ELSE pendingData[s]]
           /\ debounceTimeout' = [s \in Sessions |->
                IF s \in hit THEN now + DebounceMs ELSE debounceTimeout[s]]
           /\ hist' = [s \in Sessions |->
                LET h == IF s \in hit THEN Arrived(s, ev) ELSE hist[s]
                IN  [h EXCEPT !.late = @ \/ (s \in called /\ sPc[s] = "closed")]]
    /\ UNCHANGED <<lifeVars, lastSentDataHash, lastMessageTime, outVars, now,
                   exceptSession>>

\* the debounce timer fires
DebounceFires(s) ==
    /\ debounceTimeout[s] # 0
    /\ debounceTimeout[s] <= now
    /\ debounceTimeout' = [debounceTimeout EXCEPT ![s] = 0]
    /\ IF pendingData[s] # NoEvent /\ ~isClosed[s]
       THEN LET h == dataHash(pendingData[s]) IN
            IF lastSentDataHash[s] = h
            THEN /\ pendingData' = [pendingData EXCEPT ![s] = NoEvent]
                 /\ UNCHANGED <<lastSentDataHash, lastMessageTime, outVars, hist>>
            ELSE IF Throttled(now, lastMessageTime[s])
            THEN /\ hist' = [hist EXCEPT ![s].throttled = TRUE]
                 /\ UNCHANGED <<pendingData, lastSentDataHash, lastMessageTime,
                                outVars>>
            ELSE /\ lastMessageTime' = [lastMessageTime EXCEPT ![s] = now]
                 /\ lastSentDataHash' = [lastSentDataHash EXCEPT ![s] = h]
                 /\ sendMessage(s, "data")
                 /\ lastData' = [lastData EXCEPT ![s] =
                                    IF Enqueued(s) THEN pendingData[s] ELSE @]
                 /\ hist' = [hist EXCEPT ![s] =
                                IF Enqueued(s) THEN Sent(s, pendingData[s]) ELSE @]
                 /\ pendingData' = [pendingData EXCEPT ![s] = NoEvent]
       ELSE /\ hist' = [hist EXCEPT ![s].lateFires =
                           IF CleanupRan(s) /\ pendingData[s] # NoEvent /\ @ = 0
                           THEN 1 ELSE @]
            /\ UNCHANGED <<pendingData, lastSentDataHash, lastMessageTime, outVars>>
    /\ UNCHANGED <<lifeVars, now, nEvents, listenerVars, exceptSession>>

\* Time passes. A timer fires when its delay has elapsed, never earlier. Time
\* is followed while a session streams or a debounce timer is armed.
TickTo(end) ==
    /\ now < end
    /\ \E s \in Sessions : sPc[s] = "streaming" \/ debounceTimeout[s] # 0
    /\ \A s \in Sessions : debounceTimeout[s] = 0 \/ debounceTimeout[s] > now
    /\ now' = now + TickMs
    /\ UNCHANGED <<lifeVars, paceVars, outVars, hist, nEvents, listenerVars,
                   exceptSession>>

\* the sessions endpoint serving the requests of the clients in S
Tick == TickTo(EndTime)

SessionStepsOf(S, Evs) ==
    \/ \E s \in S, sid \in SessionIdFilters : SessionOpen(s, sid)
    \/ \E s \in S : ListenReturns(s)
    \/ \E s \in S : SessionRetry(s)
    \/ \E s \in S : ClientAbort(s)
    \/ \E s \in S : CleanupReturns(s)
    \/ \E s \in S : StreamCancel(s)
    \/ \E s \in S : Heartbeat(s)
    \/ \E s \in S : DebounceFires(s)
    \/ \E ev \in Evs : SessionNotify(ev)
    \/ Tick
    \/ \E c \in Callers : ListenResume(c)
    \/ ConnectSucceeds
    \/ ConnectFails
    \/ ConnectRetry
    \/ \E ok \in BOOLEAN : QueryDone(ok)

SessionNextOf(S, Evs) ==
    \/ SessionStepsOf(S, Evs)
    \/ \E s \in S : CleanupAgain(s)

SessionNext == SessionNextOf(Sessions, StreamEvents)

\* a single client, whose stream is followed over time
PacingNext == SessionStepsOf({1}, StreamEvents)

LifecycleEvents == {ev \in StreamEvents : Field(ev, "id") = "A"}

\* the fingerprint comparison of the debounce callback, applied to every pair
\* of an event sent last and an event pending
DedupNext == DedupCompare

\* a single client on a healthy database, followed long enough for two data
\* messages to be a full throttle interval apart
ThrottleEnd == EndTime + 2 * TickMs
ThrottleNext ==
    \/ \E sid \in SessionIdFilters : SessionOpen(1, sid)
    \/ ListenReturns(1)
    \/ DebounceFires(1)
    \/ \E ev \in StreamEvents : SessionNotify(ev)
    \/ TickTo(ThrottleEnd)
    \/ \E c \in Callers : ListenResume(c)
    \/ ConnectSucceeds
    \/ QueryDone(TRUE)

\* a single client followed from start() to repeated cleanup(), with the
\* changes of one row arriving on its channel
LifecycleNext == SessionNextOf({1}, LifecycleEvents)

-----------------------------------------------------------------------------
(* useSSE: the hook that owns one SSEConnectionService                     *)

MaxRenders == 5     \* renders of the component explored in one run
MaxTimers  == 2     \* pending setTimeout(connect, 100) of reconnect() at a time

\* How the component passes its options: `stable` says that the callbacks in
\* options keep their identity from one render to the next (the typed hooks
\* pass function literals, which do not), autoReconnect is the option.
UseOptions == [stable : BOOLEAN, autoReconnect : BOOLEAN]

\* the hook before its first effects run
UseFresh(options) ==
    [options |-> options, renders |-> 0, state |-> "idle", error |-> FALSE,
     renderPending |-> FALSE, connectTimeout |-> FALSE, reconnectTimers |-> 0,
     byTimer |-> {}, errors |-> FALSE]

UseSSEInit == useSSE \in {UseFresh(o) : o \in UseOptions}
UseSSEIdle == useSSE = UseFresh([stable |-> TRUE, autoReconnect |-> FALSE])

\* setConnectionState / setError (isConnected and isConnecting follow the
\* state): React schedules a render only when a value changes
SetState(u, state, error) ==
    [u EXCEPT !.state = state, !.error = error,
              !.renderPending = @ \/ state # u.state \/ error # u.error]

\* useCallback(connect, [..., onMessage, onError, onOpen, onClose, ...]): a
\* render gives connect, and with it reconnect, a new identity when a callback
\* in options has one; the effects that depend on them then run again
EffectsRerun(options) == ~options.stable

\* the hook's disconnect() followed by setTimeout(connect, 100): reconnect()
reconnect(u) ==
    [SetState(u, "disconnected", u.error) EXCEPT !.reconnectTimers = @ + 1]

\* The first effects: the auto-connect effect arms its timer, the reconnect
\* effect calls reconnect() on the new service.
Mount ==
    /\ useSSE.renders = 0
    /\ DisconnectBody
    /\ cLastOp' = Op("disconnect", "-")
    /\ useSSE' = [reconnect(useSSE) EXCEPT !.renders = 1, !.connectTimeout = TRUE]
    /\ UNCHANGED <<isDestroyed, nOpened, cDestroyCalled, exceptUse>>

\* A render a state update has scheduled, and the effects after it. When connect
\* has a new identity the auto-connect effect is cleaned up (clearTimeout,
\* disconnect()) and run again (a new timer), and the reconnect effect calls
\* reconnect().
Render ==
    /\ useSSE.renders >= 1
    /\ useSSE.renders < MaxRenders
    /\ useSSE.renderPending
    /\ LET u == [useSSE EXCEPT !.renders = @ + 1, !.renderPending = FALSE] IN
       IF EffectsRerun(useSSE.options)
       THEN /\ useSSE.reconnectTimers < MaxTimers
            /\ DisconnectBody
            /\ cLastOp' = Op("disconnect", "-")
            /\ useSSE' = [reconnect(u) EXCEPT !.connectTimeout = TRUE]
            /\ UNCHANGED <<isDestroyed, nOpened, cDestroyCalled>>
       ELSE /\ useSSE' = u
            /\ UNCHANGED clientVars
    /\ UNCHANGED exceptUse

\* A 100 ms timer fires and calls the hook's connect(): the timer of the
\* auto-connect effect, or one armed by reconnect().
HookTimerFires(ofEffect) ==
    /\ useSSE.renders >= 1
    /\ IF ofEffect THEN useSSE.connectTimeout ELSE useSSE.reconnectTimers > 0
    /\ LET u == IF ofEffect THEN [useSSE EXCEPT !.connectTimeout = FALSE]
                ELSE [useSSE EXCEPT !.reconnectTimers = @ - 1]
           connected == /\ connectionState = "connected"   \* service.isConnected()
                        /\ eventSource # 0
                        /\ esState[eventSource] = "open"
       IN  IF connected \/ connectionState = "connecting"
           THEN /\ useSSE' = u
                /\ UNCHANGED clientVars
           ELSE /\ ConnectBody(FALSE)
                /\ useSSE' = SetState(u, "connecting", FALSE)
                /\ UNCHANGED cDestroyCalled
    /\ UNCHANGED exceptUse

\* onopen of a transport, then handlers.onOpen of the hook
UseOpen(t) ==
    /\ OnOpen(t)
    /\ useSSE' = SetState(useSSE, "connected", FALSE)
    /\ UNCHANGED exceptUse

\* onmessage of a transport, then handlers.onMessage of the hook:
\* setLastMessage(message) with a new object, and the component's own onMessage
UseMessage(t, raw) ==
    /\ OnMessage(t, raw)
    /\ useSSE' = [useSSE EXCEPT !.renderPending =
                     @ \/ parseMessage(raw) # NullMessage]
    /\ UNCHANGED exceptUse

\* onerror of a transport, then handlers.onError of the hook. The handlers
\* handed to setupAutoReconnect do not arm the reconnect timer again.
UseError(t, next) ==
    /\ OnError(t, next, useSSE.options.autoReconnect /\ t \notin useSSE.byTimer)
    /\ useSSE' = [SetState(useSSE, "error", TRUE) EXCEPT !.errors = TRUE]
    /\ UNCHANGED exceptUse

\* the reconnect timer of the service fires; the transport it opens carries
\* the handlers handed to setupAutoReconnect
UseReconnectTimer ==
    /\ OnReconnectTimer
    /\ useSSE' = [useSSE EXCEPT !.byTimer =
                     IF nOpened' # nOpened THEN @ \cup {eventSource'} ELSE @]
    /\ UNCHANGED exceptUse

\* The connection timeout of the service (60 s by default) fires; the 100 ms
\* timers of the hook that are pending fire before it.
UseConnectionTimeout ==
    /\ ~useSSE.connectTimeout
    /\ useSSE.reconnectTimers = 0
    /\ ConnectionTimeoutFires

\* one inbound message of each outcome of parseMessage
UseSamples == {raw \in InboundSamples : raw.json # "null"}

UseSSENext ==
    \/ Mount
    \/ Render
    \/ \E ofEffect \in BOOLEAN : HookTimerFires(ofEffect)
    \/ \E t \in TransportIds : UseOpen(t)
    \/ \E t \in TransportIds, raw \in UseSamples : UseMessage(t, raw)
    \/ \E t \in TransportIds, next \in {"connecting", "closed"} : UseError(t, next)
    \/ UseReconnectTimer
    \/ UseConnectionTimeout

-----------------------------------------------------------------------------
(* Specifications                                                          *)

InitFilter   == FilterInit /\ HooksIdle /\ ClientInit /\ ListenerInit /\ SessionInit /\ UseSSEIdle /\ DedupIdle
InitHooks    == FilterIdle /\ HooksInit /\ ClientInit /\ ListenerInit /\ SessionInit /\ UseSSEIdle /\ DedupIdle
InitClient   == FilterIdle /\ HooksIdle /\ ClientInit /\ ListenerInit /\ SessionInit /\ UseSSEIdle /\ DedupIdle
InitListener == FilterIdle /\ HooksIdle /\ ClientInit /\ ListenerInit /\ SessionInit /\ UseSSEIdle /\ DedupIdle
InitSession  == FilterIdle /\ HooksIdle /\ ClientInit /\ ListenerInit /\ SessionInit /\ UseSSEIdle /\ DedupIdle
InitPacing   == FilterIdle /\ HooksIdle /\ ClientInit /\ ListenerInit /\ SessionInit /\ UseSSEIdle /\ DedupIdle
InitUseSSE == FilterIdle /\ HooksIdle /\ ClientInit /\ ListenerInit /\ SessionInit /\ UseSSEInit /\ DedupIdle
InitDispatch == FilterIdle /\ HooksIdle /\ ClientInit /\ ListenerInit /\ SessionInit /\ UseSSEIdle /\ DedupIdle
InitInbound == FilterIdle /\ HooksIdle /\ ClientInit /\ ListenerInit /\ SessionInit /\ UseSSEIdle /\ DedupIdle
InitLifecycle == FilterIdle /\ HooksIdle /\ ClientInit /\ ListenerInit /\ SessionInit /\ UseSSEIdle /\ DedupIdle

\* the callbacks registered on the session channel
Registered(ls) ==
    IF SessionChannel \in DOMAIN ls THEN SetOf(ls[SessionChannel]) ELSE {}

\* one channel on a healthy database: its subscribers coming and going, and
\* the notifications each of them is handed
DispatchNext ==
    \/ \E c \in Callers :
          /\ c \notin Registered(listeners)
          /\ ListenCall(c, SessionChannel, c)
    \/ \E c \in Callers : UnlistenCall(c, SessionChannel, c)
    \/ \E c \in Callers : ListenResume(c)
    \/ ConnectSucceeds
    \/ QueryDone(TRUE)
    \/ \E thrower \in Callers \cup {NoThrower} : Deliver(SessionChannel, thrower)

\* the listener of one channel with disconnect() called between calls
ReconnectNext ==
    \/ ListenerStepsOf({SessionChannel})
    \/ disconnect

\* the listener of one channel whose connection can drop
LossNext ==
    \/ ListenerStepsOf({SessionChannel})
    \/ ConnectionLost

\* the two receivers of inbound payloads side by side: the channel listener on
\* one channel, and a client that connects once and receives messages
InboundNext ==
    \/ ListenerNextOf({SessionChannel})
    \/ (connectionState = "idle" /\ Connect)
    \/ \E t \in TransportIds : TransportOpen(t)
    \/ \E t \in TransportIds, raw \in InboundSamples : TransportMessage(t, raw)

SpecFilter == InitFilter /\ [][FilterNext]_vars
SpecHooks  == InitHooks /\ [][HooksNext]_vars
SpecClient == InitClient /\ [][ClientNext]_vars
SpecListener == InitListener /\ [][ListenerNext]_vars
SpecSession == InitSession /\ [][SessionNext]_vars
SpecPacing == InitPacing /\ [][PacingNext]_vars
InitThrottle == FilterIdle /\ HooksIdle /\ ClientInit /\ ListenerInit /\ SessionInit /\ UseSSEIdle /\ DedupIdle
SpecThrottle == InitThrottle /\ [][ThrottleNext]_vars
SpecLifecycle == InitLifecycle /\ [][LifecycleNext]_vars
SpecInbound == InitInbound /\ [][InboundNext]_vars
InitReconnect == FilterIdle /\ HooksIdle /\ ClientInit /\ ListenerInit /\ SessionInit /\ UseSSEIdle /\ DedupIdle
SpecReconnect == InitReconnect /\ [][ReconnectNext]_vars
InitDedup == FilterIdle /\ HooksIdle /\ ClientInit /\ ListenerInit /\ SessionInit /\ UseSSEIdle /\ DedupInit
SpecDedup == InitDedup /\ [][DedupNext]_vars
InitLoss == FilterIdle /\ HooksIdle /\ ClientInit /\ ListenerInit /\ SessionInit /\ UseSSEIdle /\ DedupIdle
SpecLoss == InitLoss /\ [][LossNext]_vars
SpecDispatch == InitDispatch /\ [][DispatchNext]_vars
SpecUseSSE == InitUseSSE /\ [][UseSSENext]_vars

Init == FilterInit /\ HooksInit /\ ClientInit /\ ListenerInit /\ SessionInit /\ UseSSEInit /\ DedupIdle
Next == FilterNext \/ HooksNext \/ ClientNext \/ ListenerNext \/ SessionNext \/ UseSSENext
           \/ DispatchNext \/ LossNext \/ ReconnectNext \/ DedupNext
Spec == Init /\ [][Next]_vars

-----------------------------------------------------------------------------
(* Claims about the resource filters (checked under SpecFilter)            *)

\* The table and the row column each endpoint filters on
TableOf(ep) ==
    CASE ep = "Sessions"  -> "sessions"
      [] ep = "Movements" -> "people_movements"
      [] ep = "Alerts"    -> "alert_logs"
      [] ep = "Metrics"   -> "realtime_metrics"
KeyOf(ep) == IF ep = "Sessions" THEN "id" ELSE "session_id"

\* the event carries a row whose column f holds val
RowHas(ev, f, val) == ev.data # NullRow /\ ev.data[f] = val

OwnTable == fEvent.table = TableOf(fEndpoint)
FilterApplied(eps) == fResult # "none" /\ fEndpoint \in eps

\* C6 as stated: for every value of session_id (absent, empty or a string) the
\* sessions / movements / metrics filter passes an event of its own table iff no
\* session_id is given (absent) or the row's id / session_id equals it.
C6_AsStated ==
    (FilterApplied({"Sessions", "Movements", "Metrics"}) /\ OwnTable) =>
        (fResult = "true" <=>
            (fSessionId = Null \/ RowHas(fEvent, KeyOf(fEndpoint), fSessionId)))

\* C6 amended: the sessions / movements / metrics filter passes an event iff
\* session_id is absent or empty, or the event is of the endpoint's own table and
\* its row's id (sessions) / session_id (movements, metrics) equals session_id.
C6_FilterSessionId ==
    FilterApplied({"Sessions", "Movements", "Metrics"}) =>
        (fResult = "true" <=>
            (\/ fSessionId \in {Null, ""}
             \/ (OwnTable /\ RowHas(fEvent, KeyOf(fEndpoint), fSessionId))))

C6_Witness ==
    /\ FilterApplied({"Movements"})
    /\ fSessionId = "A"
    /\ OwnTable
    /\ RowHas(fEvent, "session_id", "A")
    /\ RowHas(fEvent, "id", "B")
    /\ fResult = "true"

\* the boolean a given `resolved` parameter asks for
Requested(resolved) == JsBool(resolved = "true")

\* C7 as stated: the alerts filter passes an alert event iff (no session_id is
\* given or the row's session_id equals it) and (no resolved is given or the row's
\* resolved flag equals the requested boolean).
C7_AsStated ==
    (FilterApplied({"Alerts"}) /\ OwnTable) =>
        (fResult = "true" <=>
            (/\ (fSessionId = Null \/ RowHas(fEvent, "session_id", fSessionId))
             /\ (fResolved = Null
                 \/ RowHas(fEvent, "is_resolved", Requested(fResolved)))))

\* C7 amended: the alerts filter passes an event iff (session_id is absent or
\* empty, or the event is an alert whose row's session_id equals it) and (resolved
\* is absent, or the event is an alert whose row's is_resolved equals the requested
\* boolean, which is true exactly for resolved = "true").
C7_FilterAlerts ==
    FilterApplied({"Alerts"}) =>
        (fResult = "true" <=>
            (/\ (fSessionId \in {Null, ""}
                 \/ (OwnTable /\ RowHas(fEvent, "session_id", fSessionId)))
             /\ (fResolved = Null
                 \/ (OwnTable /\ RowHas(fEvent, "is_resolved", Requested(fResolved))))))

C7_Witness ==
    /\ FilterApplied({"Alerts"})
    /\ fSessionId = "A"
    /\ fResolved = "true"
    /\ RowHas(fEvent, "session_id", "A")
    /\ RowHas(fEvent, "is_resolved", "true")
    /\ OwnTable
    /\ fResult = "true"

-----------------------------------------------------------------------------
(* Claims about the typed client hooks (checked under SpecHooks)           *)

\* C10: in every typed hook an INSERT for an id already present, an UPDATE for an
\* absent id and a DELETE for an absent id leave the collection unchanged.
C10_MergeLaws ==
    /\ (hLast.action = "INSERT" /\ hLast.present) => hColl = hPrev
    /\ (hLast.action = "UPDATE" /\ ~hLast.present) => hColl = hPrev
    /\ (hLast.action = "DELETE" /\ ~hLast.present) => hColl = hPrev

-----------------------------------------------------------------------------
(* Claims about the client connection manager (checked under SpecClient)   *)

\* C8: connect() called while the state is connecting or connected opens no
\* transport and leaves the state, the transport and the timers as they were.
C8_ConnectNoSecondTransport ==
    [][(cLastOp'.op = "connect" /\ connectionState \in {"connecting", "connected"})
        => UNCHANGED <<connectionState, eventSource, esState, nOpened,
                       reconnectTimeout, connectionTimeout>>]_vars

C8_Witness ==
    /\ cLastOp = Op("connect", "noop")
    /\ connectionState = "connecting"
    /\ connectionTimeout
    /\ nOpened = 1

\* C9: once destroy() has been called, a direct connect() throws, the reconnect
\* timer's callback does not call connect(), and no transport is created again.
C9_DestroyedNeverConnects ==
    [][cDestroyCalled =>
        /\ nOpened' = nOpened
        /\ \A t \in TransportIds : esState[t] = "none" => esState'[t] = "none"
        /\ cLastOp'.op = "connect" => cLastOp'.outcome = "throw"
        /\ cLastOp'.op = "reconnect_timer" => cLastOp'.outcome = "skipped"
        /\ cDestroyCalled']_vars

C9_Witness ==
    /\ cDestroyCalled
    /\ cLastOp = Op("connect", "throw")
    /\ nOpened >= 1

-----------------------------------------------------------------------------
(* Channel listener claims                                                 *)

\* a run made of calls that never overlap and commands that never fail
SequentialSoFar == ~overlapped /\ ~queryFailed

\* C2: in a sequence of listen/unlisten calls with distinct callbacks, where no
\* call overlaps another and no command fails, every step issues LISTEN on a
\* channel exactly when that channel's callback count goes from zero to one and
\* UNLISTEN exactly when it goes from one to zero; no other step issues either.
C2_ListenOnFirstUnlistenOnLast ==
    [][ (~overlapped' /\ ~queryFailed') =>
          \A ch \in Channels :
             /\ listenCmds'[ch] - listenCmds[ch] =
                  (IF getListenerCount(ch) = 0 /\ getListenerCount(ch)' = 1
                   THEN 1 ELSE 0)
             /\ unlistenCmds'[ch] - unlistenCmds[ch] =
                  (IF getListenerCount(ch) = 1 /\ getListenerCount(ch)' = 0
                   THEN 1 ELSE 0) ]_vars

\* two callbacks were added to one channel and both removed again, in calls that
\* did not overlap: one LISTEN and one UNLISTEN were issued and the key is gone
C2_Witness ==
    /\ SequentialSoFar
    /\ nCalls = 4
    /\ \E ch \in Channels :
         /\ listenCmds[ch] = 1
         /\ unlistenCmds[ch] = 1
         /\ ch \notin DOMAIN listeners
         /\ \A other \in Channels \ {ch} : listenCmds[other] = 0
    /\ \A c \in Callers : calls[c].pc = "idle"


-----------------------------------------------------------------------------
(* Stream session claims                                                   *)

\* the session's change callback is in the listener's set for its channel
Subscribed(s) ==
    SessionChannel \in DOMAIN listeners /\ s \in SetOf(listeners[SessionChannel])

\* no timer of the session is armed and the client is still there: whatever has
\* not been sent by now is sent only if another event arrives
Quiet(s) ==
    /\ sPc[s] = "streaming"
    /\ ~isClosed[s]
    /\ ~aborted[s]
    /\ debounceTimeout[s] = 0

\* C1: once cleanup() has run for an aborted client, the session's heartbeat
\* timer is cancelled, its callback is no longer in the listener's set for the
\* channel (the subscriber count went down by one), and no later notification
\* invokes the callback.
C1_CleanupUnsubscribes ==
    \A s \in Sessions :
        sPc[s] = "closed" =>
            (~heartbeatInterval[s] /\ ~Subscribed(s) /\ ~hist[s].late)

\* C3: the events of one burst (same row id, each less than the debounce delay
\* after the previous one) produce at most one data message, and that message
\* carries the last event of the burst.
C3_BurstOneMessageLast ==
    \A s \in Sessions :
        /\ hist[s].burstSends <= 1
        /\ (hist[s].burstSends = 1 => lastData[s] = hist[s].lastAccepted)

\* a burst of two or more events has produced its message
C3_Witness ==
    \E s \in Sessions :
        /\ hist[s].burstLen >= 2
        /\ hist[s].burstSends = 1
        /\ lastMsg[s] = "data"
        /\ lastData[s] = hist[s].lastAccepted

\* C4: when the same event has been delivered twice in a row to an open session
\* (the event differing from the one sent before it), then once no timer is
\* pending exactly one data message carrying it has been sent.
C4_DuplicateSentOnce ==
    \A s \in Sessions :
        (Quiet(s) /\ hist[s].runLen = 2 /\ hist[s].runFresh)
            => hist[s].runSends = 1

\* C5: when events have arrived at an open session and no timer is pending any
\* more, the fingerprint last sent is the fingerprint of the last event.
C5_FinalStateDelivered ==
    \A s \in Sessions :
        (Quiet(s) /\ hist[s].lastAccepted # NoEvent)
            => lastSentDataHash[s] = dataHash(hist[s].lastAccepted)

-----------------------------------------------------------------------------
(* Client connection manager: timeout and state machine                    *)

\* C12: when the connection timeout fires while the manager is still
\* connecting (no open event has arrived), the manager ends in state `error`
\* and the transport of the attempt is closed.
C12_TimeoutLeavesError ==
    [][ (cLastOp'.op = "timeout" /\ connectionState = "connecting")
          => /\ connectionState' = "error"
             /\ eventSource # 0
             /\ esState'[eventSource] = "closed" ]_vars

\* C13: every change of connectionState is one of the documented transitions,
\* caused by the documented operation (a connect() call that starts a new
\* attempt from `disconnected` or `error` is read as the documented re-entry
\* into `connecting`); in particular `connected` is entered only from
\* `connecting`.
C13_StateMachine ==
    [][ connectionState' # connectionState =>
          LET from == connectionState
              to   == connectionState'
              by   == cLastOp'.op
          IN  \/ from \in {"idle", "disconnected", "error"}
                 /\ to = "connecting" /\ by = "connect"
              \/ from = "connecting" /\ to = "connected" /\ by = "onopen"
              \/ from = "connecting" /\ to = "error" /\ by \in {"onerror", "timeout"}
              \/ from = "connected" /\ to = "error" /\ by = "onerror"
              \/ from = "error" /\ to = "connecting" /\ by = "reconnect_timer"
              \/ to = "disconnected" /\ by \in {"disconnect", "destroy"} ]_vars

-----------------------------------------------------------------------------
(* Channel listener: connect()                                             *)

\* the callers whose listen() is awaiting connect()
Waiters == {c \in Callers : calls[c].pc = "await_connect"}

\* C14: at most one attempt sequence is in flight, and exactly while
\* connectionPromise is set; a caller awaiting connect() always awaits a
\* sequence in flight; a call made while connected leaves the connection
\* alone; when the sequence ends every waiter gets its outcome (resumes on
\* success, is rejected on failure).
C14_ConnectShared ==
    [][ /\ connSeqs' <= 1
        /\ (connSeqs' = 1) = (connectionPromise' = "pending")
        /\ (Waiters' # {} => connSeqs' = 1)
        /\ ((isConnected /\ client # 0) => UNCHANGED connVars)
        /\ ((connSeqs = 1 /\ connSeqs' = 0) =>
               \A c \in Waiters :
                  IF isConnected'
                  THEN calls'[c].pc = "connected"
                  ELSE calls'[c].pc = "idle" /\ calls'[c].result = "error") ]_vars

\* two listen() calls awaited the same sequence and both resumed when it
\* succeeded
C14_Witness ==
    /\ isConnected
    /\ connSeqs = 0
    /\ nCalls = 2
    /\ Cardinality({c \in Callers : calls[c].pc = "connected"}) = 2

\* C15: a sequence makes at most maxRetries attempts; while it waits after its
\* k-th failed attempt the delay is base x k; when the last attempt fails every
\* waiter is rejected and the listener is left not connected, without client
\* and without promise; the next connect() then starts a sequence at its first
\* attempt with all retries.
C15_RetryBackoffThenFail ==
    [][ /\ connAttempts' <= MaxRetries
        /\ (connPhase' = "delaying" =>
               (connDelay' = connAttempts' /\ connAttempts' < MaxRetries))
        /\ ((connSeqs = 1 /\ connSeqs' = 0 /\ ~isConnected') =>
               /\ connAttempts = MaxRetries
               /\ client' = 0
               /\ connectionPromise' = "null"
               /\ connPhase' = "idle"
               /\ \A c \in Waiters :
                    calls'[c].pc = "idle" /\ calls'[c].result = "error")
        /\ ((connSeqs = 0 /\ connSeqs' = 1) =>
               /\ connAttempts' = 1
               /\ connRetries' = MaxRetries
               /\ connPhase' = "attempting") ]_vars

\* a sequence has given up, rejecting its caller, and a later call has started
\* a new sequence
C15_Witness ==
    /\ connPhase = "attempting"
    /\ connAttempts = 1
    /\ connSeqs = 1
    /\ \E c \in Callers : calls[c].pc = "idle" /\ calls[c].result = "error"

-----------------------------------------------------------------------------
(* Stream session: start(), cleanup() and late sends (checked under         *)
(* SpecLifecycle)                                                           *)

\* C16: start() calls listen() at most ListenRetries (3) times. At most one
\* `error` message is ever enqueued for the session, and once every attempt has
\* failed while the client is still there, exactly one has been enqueued, the
\* start has completed (the session is streaming), the session is not closed and
\* its heartbeat interval is still armed.
C16_StartFailureOneError ==
    \A s \in Sessions :
        /\ hist[s].listens <= ListenRetries
        /\ sendLog[s].errors <= 1
        /\ (hist[s].startFailed /\ ~aborted[s])
              => /\ sendLog[s].errors = 1
                 /\ sPc[s] = "streaming"
                 /\ ~isClosed[s]
                 /\ heartbeatInterval[s]

\* every listen() failed, the error went out, and a heartbeat followed it
C16_Witness ==
    \E s \in Sessions :
        /\ hist[s].startFailed
        /\ hist[s].listens = ListenRetries
        /\ sendLog[s].errors = 1
        /\ ~aborted[s]
        /\ lastMsg[s] = "heartbeat"

\* C17: once cleanup() has been entered on a session, no message of any type
\* is enqueued on its controller again: no send after that point finds the
\* session open.
C17_NoSendAfterCleanup ==
    \A s \in Sessions :
        /\ ~sendLog[s].late
        /\ CleanupRan(s) => isClosed[s] /\ ~heartbeatInterval[s]

\* a closed session whose leaked callback took a notification, and whose
\* debounce timer then fired with that event pending
C17_Witness ==
    \E s \in Sessions :
        /\ sPc[s] = "closed"
        /\ hist[s].late
        /\ hist[s].lateFires = 1
        /\ pendingData[s] # NoEvent

\* C18: a second call of cleanup() on a session changes nothing the first call
\* established: the session stays closed, the heartbeat interval stays cleared,
\* no debounce timer is left armed, the listener's subscriptions, its command
\* queue and the number of UNLISTEN commands are untouched, and the controller
\* stays as the first call left it (the second close() throws and is caught).
C18_CleanupIdempotent ==
    [][ \A s \in Sessions :
          /\ (hist[s].cleanups >= 1 /\ hist'[s].cleanups = hist[s].cleanups + 1)
                => /\ isClosed[s] /\ isClosed'[s]
                   /\ ~heartbeatInterval[s] /\ ~heartbeatInterval'[s]
                   /\ debounceTimeout'[s] = 0
                   /\ listeners' = listeners
                   /\ queries' = queries
                   /\ unlistenCmds' = unlistenCmds
                   /\ ctrlClosed' = ctrlClosed
                   /\ calls'[s].result = "ok"
          /\ (hist[s].cleanups >= 2 /\ sPc[s] = "cleaning" /\ sPc'[s] = "closed")
                => /\ ctrlClosed' = ctrlClosed
                   /\ isClosed'[s]
                   /\ listeners' = listeners
                   /\ unlistenCmds' = unlistenCmds ]_vars

\* cleanup() has run twice on a session and both calls have returned
C18_Witness ==
    \E s \in Sessions :
        /\ hist[s].cleanups = 2
        /\ sPc[s] = "closed"
        /\ ctrlClosed[s]

-----------------------------------------------------------------------------
(* Inbound messages: type and structure (C19 under SpecClient, C20 under    *)
(* SpecInbound)                                                             *)

\* C19: an inbound message whose type is not one of connection, data, error,
\* heartbeat, test is rejected: parseMessage returns null for it and the
\* manager's onmessage does not invoke handlers.onMessage.
C19_UnknownTypeRejected ==
    [][ (cLastOp'.op = "onmessage" /\ cLastOp' # cLastOp
           /\ ~isValidMessageType(cLastOp'.msg.type))
          => /\ parseMessage(cLastOp'.msg) = NullMessage
             /\ cLastOp'.outcome = "dropped" ]_vars

\* an inbound client message that is unparsable or lacks type or timestamp
Malformed(raw) ==
    raw.json # "object" \/ Absent(raw.type) \/ Absent(raw.timestamp)

\* C20: a notification whose payload is not valid JSON invokes no subscriber
\* callback and leaves the listener as it was (nothing is raised out of the
\* handler); an inbound client message that is unparsable or lacks type or
\* timestamp does not invoke handlers.onMessage and leaves the connection state,
\* the transports and the timers unchanged.
C20_MalformedDropped ==
    [][ /\ (<<cbCalls, lastNote>>' # <<cbCalls, lastNote>>
              /\ lastNote' = "malformed")
            => /\ \A c \in Callers : cbCalls'[c] = 0
               /\ UNCHANGED <<connVars, listeners, handlers, queries, pgListen,
                              calls, listenCmds, unlistenCmds, queryFailed>>
        /\ (cLastOp' # cLastOp /\ cLastOp'.op = "onmessage"
              /\ Malformed(cLastOp'.msg))
            => /\ cLastOp'.outcome = "dropped"
               /\ UNCHANGED <<connectionState, eventSource, isDestroyed,
                              reconnectTimeout, connectionTimeout, esState>> ]_vars

\* a malformed notification reached a channel with two subscribers right after
\* one that was delivered to them, and an unparsable message reached an open
\* connection
C20_Witness ==
    /\ lastNote = "malformed"
    /\ SessionChannel \in DOMAIN listeners
    /\ Len(listeners[SessionChannel]) = 2
    /\ \A c \in Callers : cbCalls[c] = 0
    /\ connectionState = "connected"
    /\ cLastOp.op = "onmessage"
    /\ cLastOp.outcome = "dropped"
    /\ cLastOp.msg.json = "malformed"

-----------------------------------------------------------------------------
(* useSSE: no reconnect loop (checked under SpecUseSSE)                     *)

\* C11: while the transport has reported no error (endpoint, sessionId and
\* resolved never change in this model), the hook opens no second connection
\* and never closes a connection that is open: renders do not disconnect or
\* reconnect.
C11_NoReconnectLoop ==
    [][ ~useSSE'.errors =>
          /\ nOpened' <= 1
          /\ \A t \in TransportIds : esState[t] = "open" => esState'[t] = "open" ]_vars

-----------------------------------------------------------------------------
(* Channel listener: dispatch to several subscribers (checked under         *)
(* SpecDispatch)                                                            *)

Sorted(log) == \A i, j \in 1..Len(log) : i < j => log[i] < log[j]

\* C21: a notification is handed to every callback registered on its channel
\* in the turn in which it arrives, when no callback throws; every subscriber
\* therefore sees the notifications it gets in their order of arrival, and two
\* subscribers see any two notifications both of them got in the same order.
C21_SameOrderForAll ==
    [][ /\ \A c \in Callers : Sorted(dispatched'.received[c])
        /\ \A a, b \in Callers :
              LET la == dispatched'.received[a]
                  lb == dispatched'.received[b]
              IN  \A i, j \in 1..Len(la), k, l \in 1..Len(lb) :
                     (la[i] = lb[k] /\ la[j] = lb[l]) => ((i < j) = (k < l))
        /\ (dispatched'.n = dispatched.n + 1 /\ dispatched'.thrower = NoThrower
              /\ handlers[SessionChannel] > 0)
            => \A c \in Registered(listeners) :
                  /\ cbCalls'[c] > 0
                  /\ dispatched'.received[c]
                       = Append(dispatched.received[c], dispatched'.n) ]_vars

\* two subscribers have both been handed the same two notifications
C21_Witness ==
    \E a, b \in Registered(listeners) :
       /\ a # b
       /\ Len(dispatched.received[a]) >= 2
       /\ dispatched.received[a] = dispatched.received[b]

\* C22: when a registered callback throws during the dispatch of a
\* notification, every other callback registered on the channel is still
\* handed that notification.
C22_ThrowerIsolated ==
    [][ (dispatched'.n = dispatched.n + 1 /\ dispatched'.thrower # NoThrower
           /\ dispatched'.thrower \in Registered(listeners)
           /\ handlers[SessionChannel] > 0)
          => \A c \in Registered(listeners) \ {dispatched'.thrower} :
                cbCalls'[c] > 0 ]_vars

-----------------------------------------------------------------------------
(* Channel listener: a lost connection (checked under SpecLoss)             *)

\* C23: after the connection is lost, the next listen() makes a new connection
\* attempt before a subscribe command is issued: no LISTEN is ever sent on the
\* lost connection, and a listen() called on it starts the connect path.
C23_ReconnectBeforeListen ==
    [][ /\ (\E ch \in Channels : listenCmds'[ch] > listenCmds[ch])
            => client # LostClient
        /\ (client = LostClient /\ nCalls' = nCalls + 1
              /\ \E c \in Callers :
                    calls'[c] # calls[c] /\ unlistenCmds' = unlistenCmds
                    /\ listeners' # listeners)
            => connAttempts' = connAttempts + 1 ]_vars

-----------------------------------------------------------------------------
(* Connection manager: the reconnect timer (checked under SpecClient)       *)

\* C24: at most one reconnect timer is outstanding; when it fires, connect() is
\* called only if the manager is not destroyed and its state is not
\* `connected`; disconnect() and destroy() leave no reconnect timer
\* outstanding, so a timer they cancelled never calls connect().
C24_OneReconnectTimer ==
    [][ /\ reconnectTimeout' <= 1
        /\ (cLastOp'.op = "reconnect_timer" /\ reconnectTimeout' < reconnectTimeout
              /\ reconnectTimeout > 0)
            => IF ~isDestroyed /\ connectionState # "connected"
               THEN cLastOp'.outcome \in {"opened", "noop"}
               ELSE /\ cLastOp'.outcome = "skipped"
                    /\ UNCHANGED <<connectionState, eventSource, esState, nOpened>>
        /\ cLastOp'.op \in {"disconnect", "destroy"} => reconnectTimeout' = 0
        /\ (reconnectTimeout = 0 /\ cLastOp' # cLastOp)
            => cLastOp'.op # "reconnect_timer" ]_vars

\* after an error armed the reconnect timer, the timer fired and its connect()
\* opened a second transport
C24_Witness ==
    /\ cLastOp = Op("reconnect_timer", "opened")
    /\ nOpened >= 2
    /\ reconnectTimeout = 0

-----------------------------------------------------------------------------
(* Typed client hooks: the bootstrap fetch and the refetch on a stream      *)
(* error (checked under SpecHooks)                                          *)

\* C25: on every stream error the mounted typed hook, whichever of the four it
\* is, starts a fetch of its whole collection, and when a fetch that returns a
\* list completes the collection is that list.
C25_ErrorRefetches ==
    [][ /\ hFetch'.errors = hFetch.errors + 1
            => hFetch'.inFlight = hFetch.inFlight + 1
        /\ (hFetch'.inFlight = hFetch.inFlight - 1 /\ HasList(hFetch'.last))
            => hColl' = hFetch'.last.list ]_vars

-----------------------------------------------------------------------------
(* Stream session: abort while start() is running (checked under            *)
(* SpecLifecycle)                                                           *)

\* C27: a client abort always leads to cleanup(), also when it happens while
\* start() is still running: once start() has returned for a client that has
\* aborted, cleanup() has run and the heartbeat timer is cancelled.
C27_AbortAlwaysCleans ==
    \A s \in Sessions :
        (aborted[s] /\ sPc[s] \notin {"listening", "retry_wait"})
            => (hist[s].cleanups > 0 /\ ~heartbeatInterval[s])

-----------------------------------------------------------------------------
(* Stream session: the opening messages (checked under SpecLifecycle)       *)

\* C28: the first two messages of every session are `connection` and then
\* `test`, whatever its filter; heartbeat, data and error messages come after.
C28_ConnectionThenTest ==
    \A s \in Sessions :
        /\ sPc[s] = "none" => sendLog[s].first = <<>>
        /\ sPc[s] # "none" => sendLog[s].first = <<"connection", "test">>

\* a filtered session has gone on to send a later message
C28_Witness ==
    \E s \in Sessions :
        /\ sFilter[s] # Null
        /\ lastMsg[s] \in {"heartbeat", "data", "error"}
        /\ sendLog[s].first = <<"connection", "test">>

-----------------------------------------------------------------------------
(* Stream session: the throttle (checked under SpecThrottle)                *)

\* the debounce timer of s fires in this step on an event that is not a
\* duplicate, less than the throttle interval after the last send
ThrottledFire(s) ==
    /\ debounceTimeout[s] # 0 /\ debounceTimeout[s] <= now
    /\ debounceTimeout'[s] = 0 /\ sPc'[s] = sPc[s]
    /\ pendingData[s] # NoEvent /\ ~isClosed[s]
    /\ lastSentDataHash[s] # dataHash(pendingData[s])
    /\ now - lastMessageTime[s] < messageThrottleMs

\* C29: two data messages of a session are at least messageThrottleMs apart;
\* an event whose debounce timer fires sooner after the last send is dropped:
\* no message is sent, no timer is armed for it, and the fingerprint and the
\* time of the last send stay as they were.
C29_ThrottleDrops ==
    [][ \A s \in Sessions :
          /\ (hist'[s].lastDataAt # hist[s].lastDataAt /\ hist[s].lastDataAt # 0)
              => hist'[s].lastDataAt - hist[s].lastDataAt >= messageThrottleMs
          /\ ThrottledFire(s)
              => /\ UNCHANGED <<lastSentDataHash, lastMessageTime, outVars>>
                 /\ hist'[s].lastDataAt = hist[s].lastDataAt ]_vars

\* an event was dropped by the throttle, and a later one was sent a full
\* interval after the message before it
C29_Witness ==
    \E s \in Sessions :
        /\ hist[s].lastDataAt = lastMessageTime[s]
        /\ hist[s].lastDataAt >= StartTime + DebounceMs + messageThrottleMs
        /\ lastMsg[s] = "data"
        /\ hist[s].throttled

-----------------------------------------------------------------------------
(* Stream session: events that fail the filter (checked under SpecThrottle) *)

\* the session asked for one row and the event is not a change of that row
FailsFilter(s, ev) == ~Falsy(sFilter[s]) /\ ~RowHas(ev, "id", sFilter[s])

\* C30: an event that fails the session's filter is discarded silently: no
\* message is sent, and the pending event, the debounce timer, the fingerprint
\* last sent and the time of the last send stay as they were; an event that
\* passes is stored and arms the timer.
C30_FilteredEventIgnored ==
    [][ nEvents' = nEvents + 1
          => \E ev \in StreamEvents : \A s \in Sessions :
                IF FailsFilter(s, ev) \/ cbCalls'[s] = 0
                THEN /\ pendingData'[s] = pendingData[s]
                     /\ debounceTimeout'[s] = debounceTimeout[s]
                     /\ lastSentDataHash'[s] = lastSentDataHash[s]
                     /\ lastMessageTime'[s] = lastMessageTime[s]
                     /\ hist'[s].lastAccepted = hist[s].lastAccepted
                     /\ UNCHANGED outVars
                ELSE /\ pendingData'[s] = ev
                     /\ debounceTimeout'[s] = now + DebounceMs
                     /\ hist'[s].lastAccepted = ev
                     /\ UNCHANGED outVars ]_vars

\* a subscribed session that asked for one row has been handed a notification
\* and nothing of it shows
C30_Witness ==
    \E s \in Sessions :
        /\ sFilter[s] = "A"
        /\ sPc[s] = "streaming"
        /\ nEvents >= 1
        /\ cbCalls[s] > 0
        /\ hist[s].lastAccepted = NoEvent
        /\ pendingData[s] = NoEvent
        /\ debounceTimeout[s] = 0
        /\ lastMsg[s] = "test"

-----------------------------------------------------------------------------
(* Channel listener: invocations per notification (checked under            *)
(* SpecListener)                                                            *)

\* C31: a notification invokes each callback registered on its channel exactly
\* once, however many listen() calls were made on the channel: no callback is
\* invoked more than once for one notification.
C31_OncePerNotification ==
    [][ lastNote' # lastNote \/ cbCalls' # cbCalls
          => \A c \in Callers : cbCalls'[c] <= 1 ]_vars

\* the callbacks registered on channel ch in the Map ls
RegisteredOn(ls, ch) == IF ch \in DOMAIN ls THEN SetOf(ls[ch]) ELSE {}

\* C32: under any interleaving of listen() and unlisten() calls, a callback
\* leaves a channel's set only in the step in which unlisten() is called: a
\* callback added by listen() and not itself unlistened stays registered, also
\* when it was added while the unlisten() of the last callback was awaiting
\* its UNLISTEN command.
C32_OnlyUnlistenRemoves ==
    [][ \A ch \in Channels, c \in Callers :
          (c \in RegisteredOn(listeners, ch) /\ c \notin RegisteredOn(listeners', ch))
             => nCalls' = nCalls + 1 ]_vars

-----------------------------------------------------------------------------
(* Channel listener: subscriptions across disconnect() and failed commands  *)
(* (checked under SpecReconnect)                                            *)

\* C33: whenever the listener is connected, no call is in flight, and the
\* channel has a registered callback whose listen() returned successfully,
\* the current connection has an active LISTEN on the channel.
C33_ListenActive ==
    (isConnected /\ queries = <<>> /\ \A c \in Callers : calls[c].pc = "idle")
        => \A c \in Registered(listeners) :
              calls[c].result = "ok" => SessionChannel \in pgListen

-----------------------------------------------------------------------------
(* Connection manager: transports owned (checked under SpecClient)          *)

\* the transports that are not closed: their handlers can still run
LiveTransports == {t \in TransportIds : esState[t] \in {"connecting", "open"}}

\* C34: the manager owns at most one live transport at any time: when connect()
\* opens a new one, every transport it opened earlier has been closed.
C34_OneLiveTransport == Cardinality(LiveTransports) <= 1

\* C35: after destroy() the manager's state is `disconnected` and stays so, and
\* no onopen, onmessage or onerror handler of a transport it created runs
\* again.
C35_DestroyedStaysDisconnected ==
    [][ cDestroyCalled =>
          /\ connectionState' = "disconnected"
          /\ cLastOp' # cLastOp
               => cLastOp'.op \notin {"onopen", "onmessage", "onerror"} ]_vars

-----------------------------------------------------------------------------
(* Stream session: what a closed session still holds (checked under         *)
(* SpecLifecycle)                                                           *)

\* C36: a session marked closed, by cleanup() (once it has returned) or by a
\* send that caught the error of a closed transport, has no heartbeat timer
\* armed and no callback registered in the channel listener.
C36_ClosedHoldsNothing ==
    \A s \in Sessions :
        (isClosed[s] /\ sPc[s] # "cleaning")
            => (~heartbeatInterval[s] /\ ~Subscribed(s))

-----------------------------------------------------------------------------
(* Stream session: the de-duplication fingerprint (checked under SpecDedup) *)

\* the id of the row an event is about: of the new row, or of the deleted one
RowIdOf(ev) == IF ev.data = NullRow THEN ev.old_id ELSE ev.data.id

\* the two events are the same change: same table, action, row and content
SameChange(a, b) ==
    a.table = b.table /\ a.action = b.action /\ RowIdOf(a) = RowIdOf(b)
    /\ a.data = b.data

\* C37: the fingerprint comparison discards the pending event only when it is
\* the same change as the event sent last: an event that differs in row id or
\* in row content is never discarded.
C37_DedupOnlyRepeats ==
    dedup.verdict = "discarded" => SameChange(dedup.last, dedup.next)

-----------------------------------------------------------------------------
(* Sessions hook: the bootstrap fetch racing live messages (checked under   *)
(* SpecHooks)                                                               *)

\* no id occurs twice in the collection
DistinctIds(seq) ==
    \A i, j \in 1..Len(seq) : seq[i].id = seq[j].id => i = j

\* C38: in the sessions hook, a row appended by a live INSERT is still in the
\* collection after a fetch response that arrives next has been applied, and
\* no id occurs twice in the collection.
C38_FetchKeepsLiveInsert ==
    [][ hKind = "sessions" =>
          /\ DistinctIds(hColl')
          /\ (hFetch'.inFlight = hFetch.inFlight - 1 /\ HasList(hFetch'.last)
                /\ hLast.action = "INSERT" /\ ~hLast.present)
              => SeqSome(hColl', hLast.id) ]_vars

\* C39: a DELETE applied by a typed hook, the producer's one with data = null
\* and the row in old_data included, raises nothing and leaves no row with the
\* deleted id in the collection.
C39_DeleteApplied ==
    hLast.action = "DELETE" => (~hLast.raised /\ ~SeqSome(hColl, hLast.id))

\* C40: when the connection timeout fires on an attempt that is still
\* connecting, handlers.onError runs: the hook shows the error state with an
\* error string, and with autoReconnect a reconnect timer is scheduled.
C40_TimeoutNotifies ==
    [][ (/\ connectionTimeout /\ ~connectionTimeout'
         /\ connectionState = "connecting"
         /\ cLastOp'.op = "timeout")
        => /\ useSSE'.state = "error"
           /\ useSSE'.error
           /\ useSSE.options.autoReconnect => reconnectTimeout' > 0 ]_vars

=============================================================================
